---- MODULE Spec2Model ----
(***************************************************************************)
(* Node server of the Azure disk CSI driver (pkg/azuredisk/nodeserver.go). *)
(*                                                                         *)
(* Each gRPC call (NodeStageVolume, NodeUnstageVolume, NodePublishVolume,  *)
(* NodeUnpublishVolume, NodeExpandVolume) runs on its own goroutine; a     *)
(* call is modelled as a small step machine whose steps are separated      *)
(* where the handler reads or writes state shared with other calls: the    *)
(* volume lock table and the OS mount table / directory tree.              *)
(***************************************************************************)
EXTENDS Integers, Sequences, FiniteSets, TLC

\* ------------------------------------------------------------------ bounds
\* number of goroutines that may serve calls at the same time
MaxCalls == 2

\* most mount entries stacked on one path (a repeated block publish stacks
\* one more bind mount each time)
MaxMounts == 2

Calls == 1..MaxCalls

VolumeIDs == {"v1", "v2"}
StagingPaths == {"/s"}
TargetPaths == {"/p/f"}
Paths == {"/", "/p", "/s", "/p/f"}

\* ------------------------------------------------------- program constants
defaultLinuxFsType == "ext4"
defaultWindowsFsType == "ntfs"
defaultAzureVolumeLimit == 16
\* wait.PollImmediate(1*time.Second, 2*time.Minute, ...), in seconds
PollInterval == 1
PollTimeout == 120

VARIABLES
    goos,         \* runtime.GOOS of the build: "linux" or "windows"
    healthy,      \* TRUE: the injected mount/device utilities never fail
    suite,        \* the requests the orchestrator sends (see Suites)
    volumeLocks,  \* d.volumeLocks: the volume IDs whose lock is taken
    mounts,       \* OS mount table: path -> number of mount entries on it
    kind,         \* OS directory tree: path -> "absent" | "dir" | "file"
    pc,           \* call -> position of the goroutine in its handler
    req,          \* call -> the request it serves
    result,       \* call -> the gRPC status it returned
    did,          \* call -> the OS steps the call has executed so far (the
                  \* feature-gated ones, tuning and expand's rescan, left out)
    held,         \* call -> TRUE while the call is between TryAcquire and Release
    trail,        \* the requests begun one after the other since start-up
    seq,          \* call -> its position in trail (0: not part of it)
    fnIn,         \* SpecFn: the arguments a function of the driver is applied to
    fnOut         \* SpecFn: what the function returned

vars == <<goos, healthy, suite, volumeLocks, mounts, kind, pc, req, result, did, held,
          trail, seq, fnIn, fnOut>>

\* ------------------------------------------------------------ gRPC status
Status(code, msg) == [code |-> code, msg |-> msg]
OK == Status("OK", "")
NoResult == Status("", "")
\* volumeOperationAlreadyExistsFmt
AlreadyExists == Status("Aborted", "An operation with the given Volume ID already exists")

\* ---------------------------------------------------------------- requests
NoReq == [op |-> "none", vol |-> "", path |-> "", access |-> "", lun |-> "",
          missing |-> "none"]

Request(op, vol, path, access, lun, missing) ==
    [op |-> op, vol |-> vol, path |-> path, access |-> access, lun |-> lun,
     missing |-> missing]

\* PublishContext[consts.LUN]: absent, not a number, or a valid slot
LunStrs == {"absent", "x", "3"}

\* ---------------------------------------------------------- volume locks
\* VolumeLocks.TryAcquire: non-blocking, fails when the ID is already taken
TryAcquire(locks, volumeID) == volumeID \notin locks

\* the lock table after a successful TryAcquire / after Release
Acquired(locks, volumeID) == locks \cup {volumeID}
Release(locks, volumeID) == locks \ {volumeID}

\* --------------------------------------------------------- device locator
\* What the guest shows of the attached disk: the second from which a device
\* node for the slot is visible, and the second from which the lookup itself
\* errors. A value above PollTimeout: not within the deadline.
Device(appearAt, errAt) == [appearAt |-> appearAt, errAt |-> errAt]

\* azureutils.GetDiskLUN: the slot string as a non-negative integer
GetDiskLUN(lunStr) ==
    IF lunStr = "3" THEN [lun |-> 3, err |-> "nil"]
    ELSE [lun |-> -1, err |-> "ParseErr"]

\* findDiskByLun as called by the poll made t seconds after the first one
findDiskByLun(dev, t) ==
    IF dev.errAt <= t THEN [path |-> "", err |-> "LookupErr"]
    ELSE IF dev.appearAt <= t THEN [path |-> "/dev/sdc", err |-> "nil"]
    ELSE [path |-> "", err |-> "nil"]

\* wait.PollImmediate with the condition of getDevicePathWithLUN: the
\* condition runs at once and then every interval until it reports done or an
\* error, a last time when the timeout fires, and then the wait times out.
\* The polls are made at PollTimes; the wait ends at the first poll whose
\* condition reports an error or a device, or with the last poll.
PollTimes(interval, timeout) ==
    {t \in 0..timeout : t % interval = 0 \/ t = timeout}

PollImmediate(interval, timeout, dev) ==
    LET times == PollTimes(interval, timeout)
        ends == {t \in times : findDiskByLun(dev, t).err # "nil"
                                \/ findDiskByLun(dev, t).path # ""}
        last == IF ends = {} THEN timeout
                ELSE CHOOSE t \in ends : \A u \in ends : t <= u
        f == findDiskByLun(dev, last)
    IN  [path |-> f.path,
         err |-> IF f.err # "nil" THEN "LookupErr"
                 ELSE IF f.path # "" THEN "nil" ELSE "Timeout",
         elapsed |-> last,
         polls |-> Cardinality({t \in times : t <= last})]

\* the device is looked for every other second only
getDevicePathWithLUN_SlowPoll(lunStr, dev) ==
    LET l == GetDiskLUN(lunStr)
        p == PollImmediate(2 * PollInterval, PollTimeout, dev)
    IN  IF l.err # "nil"
        THEN [path |-> "", err |-> l.err, elapsed |-> 0, polls |-> 0, rescan |-> FALSE]
        ELSE IF p.err = "nil" /\ p.path = ""
        THEN [p EXCEPT !.err = "Timeout"] @@ [rescan |-> TRUE]
        ELSE p @@ [rescan |-> TRUE]

\* GetDiskLUN, scsiHostRescan, then the poll for the device
getDevicePathWithLUN(lunStr, dev) ==
    LET l == GetDiskLUN(lunStr)
        p == PollImmediate(PollInterval, PollTimeout, dev)
    IN  IF l.err # "nil"
        THEN [path |-> "", err |-> l.err, elapsed |-> 0, polls |-> 0, rescan |-> FALSE]
        ELSE IF p.err = "nil" /\ p.path = ""
        THEN [p EXCEPT !.err = "Timeout"] @@ [rescan |-> TRUE]
        ELSE p @@ [rescan |-> TRUE]

\* ------------------------------------------------------- mount utilities
\* The faults the injected utilities may report during one step.
MountOut(mnt, err, m, k) == [mnt |-> mnt, err |-> err, mounts |-> m, kind |-> k]

\* mounter.IsLikelyNotMountPoint: a missing path is "not a mount point" with
\* a not-exist error; on Linux a bind mount may go unnoticed (blind).
IsLikelyNotMountPoint(target, m, k, blind, f) ==
    IF k[target] = "absent" THEN [notMnt |-> TRUE, err |-> "NotExist"]
    ELSE IF "query" \in f THEN [notMnt |-> TRUE, err |-> "QueryErr"]
    ELSE [notMnt |-> (m[target] = 0) \/ blind, err |-> "nil"]

\* mounter.Unmount of one mount entry
CanUnmount(target, m, f) == m[target] > 0 /\ "unmount" \notin f

\* volumehelper.MakeDir: MkdirAll, an existing directory is not an error
CanMakeDir(target, k, f) == k[target] # "file" /\ "mkdir" \notin f

\* a missing target counts as a failed query (no os.IsNotExist tolerance)
ensureMountPoint_Strict(target, os, m, k, blind, f) ==
    LET q == IsLikelyNotMountPoint(target, m, k, blind, f)
        queryFailed == q.err # "nil"
        corrupted == "corrupt" \in f
        notMnt1 == IF queryFailed /\ corrupted THEN FALSE ELSE q.notMnt
        listed == m[target] > 0
        notMnt == IF os # "windows" /\ listed THEN FALSE ELSE notMnt1
        readDirOK == k[target] = "dir" /\ "readdir" \notin f
    IN  IF queryFailed /\ ~corrupted THEN MountOut(~q.notMnt, q.err, m, k)
        ELSE IF os # "windows" /\ "list" \in f THEN MountOut(~notMnt1, "ListErr", m, k)
        ELSE IF ~notMnt
        THEN IF readDirOK THEN MountOut(TRUE, "nil", m, k)
             ELSE IF ~CanUnmount(target, m, f) THEN MountOut(TRUE, "UnmountErr", m, k)
             ELSE MountOut(FALSE, "ReadDirErr", [m EXCEPT ![target] = @ - 1], k)
        ELSE IF os # "windows"
        THEN IF CanMakeDir(target, k, f)
             THEN MountOut(FALSE, "nil", m, [k EXCEPT ![target] = "dir"])
             ELSE MountOut(FALSE, "MkdirErr", m, k)
        ELSE MountOut(FALSE, "nil", m, k)

ensureMountPoint(target, os, m, k, blind, f) ==
    LET q == IsLikelyNotMountPoint(target, m, k, blind, f)
        queryFailed == q.err # "nil" /\ q.err # "NotExist"
        corrupted == "corrupt" \in f                  \* azureutils.IsCorruptedDir
        notMnt1 == IF queryFailed /\ corrupted THEN FALSE ELSE q.notMnt
        listed == m[target] > 0                       \* mounter.List
        notMnt == IF os # "windows" /\ listed THEN FALSE ELSE notMnt1
        readDirOK == k[target] = "dir" /\ "readdir" \notin f
    IN  IF queryFailed /\ ~corrupted THEN MountOut(~q.notMnt, q.err, m, k)
        ELSE IF os # "windows" /\ "list" \in f THEN MountOut(~notMnt1, "ListErr", m, k)
        ELSE IF ~notMnt
        THEN IF readDirOK THEN MountOut(TRUE, "nil", m, k)
             ELSE IF ~CanUnmount(target, m, f) THEN MountOut(TRUE, "UnmountErr", m, k)
             ELSE \* notMnt = true; return !notMnt, err: err is ReadDir's error
                  MountOut(FALSE, "ReadDirErr", [m EXCEPT ![target] = @ - 1], k)
        ELSE IF os # "windows"
        THEN IF CanMakeDir(target, k, f)
             THEN MountOut(FALSE, "nil", m, [k EXCEPT ![target] = "dir"])
             ELSE MountOut(FALSE, "MkdirErr", m, k)
        ELSE MountOut(FALSE, "nil", m, k)

\* mounter.Mount / formatAndMount: one more mount entry on target; on Linux
\* the mount point has to exist, on Windows the link is created by the mount
Mount(target, os, m, k, f) ==
    IF "mount" \in f \/ (os # "windows" /\ k[target] = "absent")
    THEN MountOut(FALSE, "MountErr", m, k)
    ELSE MountOut(TRUE, "nil", [m EXCEPT ![target] = @ + 1],
                  IF k[target] = "absent" THEN [k EXCEPT ![target] = "dir"] ELSE k)

formatAndMount(target, os, m, k, f) ==
    IF "format" \in f THEN MountOut(FALSE, "FormatErr", m, k)
    ELSE Mount(target, os, m, k, f)

\* CleanupMountPoint: a missing path is fine; a mounted path is unmounted
\* once and must then be free; the path is removed afterwards.
CleanupMountPoint(path, extensiveMountPointCheck, m, k, f) ==
    IF k[path] = "absent" THEN MountOut(FALSE, "nil", m, k)
    ELSE IF m[path] > 0 /\ "unmount" \in f THEN MountOut(TRUE, "UnmountErr", m, k)
    ELSE IF m[path] > 1
    THEN MountOut(TRUE, "StillMounted", [m EXCEPT ![path] = @ - 1], k)
    ELSE IF "remove" \in f
    THEN MountOut(FALSE, "RemoveErr", [m EXCEPT ![path] = 0], k)
    ELSE MountOut(FALSE, "nil", [m EXCEPT ![path] = 0], [k EXCEPT ![path] = "absent"])

\* os.MakeFile / os.Remove in ensureBlockTargetFile
CanMakeFile(target, k, f) == k[target] # "dir" /\ "mkfile" \notin f
CanRemove(target, k, f) == k[target] # "absent" /\ "remove" \notin f

ensureBlockTargetFile(target, parentDir, os, m, k, blind, f) ==
    LET e == ensureMountPoint(parentDir, os, m, k, blind, f)
    IN  IF e.err # "nil"
        THEN MountOut(FALSE, "could not mount target", e.mounts, e.kind)
        ELSE IF CanMakeFile(target, e.kind, f)
        THEN MountOut(FALSE, "nil", e.mounts, [e.kind EXCEPT ![target] = "file"])
        ELSE IF ~CanRemove(target, e.kind, f)
        THEN MountOut(FALSE, "could not remove mount target", e.mounts, e.kind)
        ELSE MountOut(FALSE, "could not create file", e.mounts,
                      [e.kind EXCEPT ![target] = "absent"])

\* filepath.Dir
Dir(path) == IF path = "/p/f" THEN "/p" ELSE "/"

\* ------------------------------------------------- stage: fstype, options
getDefaultFsType(os) ==
    IF os = "windows" THEN defaultWindowsFsType ELSE defaultLinuxFsType

collectMountOptions(fsType, mntFlags) ==
    IF fsType = "xfs" THEN Append(mntFlags, "nouuid") ELSE mntFlags

\* strings.ToLower on the file system names that occur
ToLower(str) ==
    CASE str = "XFS" -> "xfs"
      [] str = "EXT4" -> "ext4"
      [] OTHER -> str

\* azureutils.GetFStype: the fstype attribute of the volume context in lower
\* case, "" when the attribute is absent
GetFStype(volumeContextFsType) == ToLower(volumeContextFsType)

\* the file system type of the capability overrides the volume context
StageMountArgs_CapabilityWins(os, cap, volumeContextFsType) ==
    LET volContextFSType == GetFStype(volumeContextFsType)
        fstype0 == IF volContextFSType # "" THEN volContextFSType
                   ELSE getDefaultFsType(os)
        fstype == IF cap.mount /\ cap.fsType # "" THEN cap.fsType ELSE fstype0
        options == IF cap.mount THEN collectMountOptions(fstype, cap.flags) ELSE <<>>
    IN  [fstype |-> fstype, options |-> options]

\* NodeStageVolume, "Get fsType and mountOptions that the volume will be
\* formatted and mounted with": cap is the capability (mount: GetMount() is
\* not nil, fsType, flags)
StageMountArgs(os, cap, volumeContextFsType) ==
    LET fstype0 == getDefaultFsType(os)
        fstype1 == IF cap.mount /\ cap.fsType # "" THEN cap.fsType ELSE fstype0
        options == IF cap.mount THEN collectMountOptions(fstype1, cap.flags) ELSE <<>>
        volContextFSType == GetFStype(volumeContextFsType)
        fstype == IF volContextFSType # "" THEN volContextFSType ELSE fstype1
    IN  [fstype |-> fstype, options |-> options]

\* NodeStageVolume after the mount: marker is VolumeContext[ResizeRequired]
\* ("" when absent), heuristic the outcome of needResizeVolume, resizeOK that
\* of resizeVolume. attempted: resizeVolume was called.
EqualFoldTrue(str) == str \in {"true", "TRUE", "True"}

\* an error of the heuristic is returned like one of the resize
StageResize_HeuristicFatal(marker, heuristic, resizeOK) ==
    LET needResize == EqualFoldTrue(marker) \/ heuristic = "need"
    IN  [attempted |-> needResize,
         consulted |-> ~EqualFoldTrue(marker),
         err |-> IF (needResize /\ ~resizeOK) \/ (~EqualFoldTrue(marker) /\ heuristic = "err")
                 THEN "ResizeErr" ELSE "nil"]

StageResize(marker, heuristic, resizeOK) ==
    LET needResize == EqualFoldTrue(marker) \/ heuristic = "need"
    IN  [attempted |-> needResize,
         consulted |-> ~EqualFoldTrue(marker),
         err |-> IF needResize /\ ~resizeOK THEN "ResizeErr" ELSE "nil"]

\* ------------------------------------------------------ expand: outcome
\* Sizes are counted in units of 256 bytes, so that 4,500,000,000 bytes and
\* whole GiB are exact: 1 GiB = 2^30 bytes = 4194304 units.
GiB == 4194304

\* volumehelper.RoundUpGiB
RoundUpGiB(volumeSize) == (volumeSize + GiB - 1) \div GiB

\* the error of resizeVolume is returned at once, not remembered
ExpandOutcome_FailFast(requiredBytes, resizeErr, measureErr, gotBlockSizeBytes) ==
    LET requestGiB == RoundUpGiB(requiredBytes)
        gotBlockGiB == RoundUpGiB(gotBlockSizeBytes)
    IN  IF resizeErr
        THEN [status |-> Status("Internal", "could not resize volume"), capacityBytes |-> 0]
        ELSE IF measureErr
        THEN [status |-> Status("Internal", "could not get size of block volume"),
              capacityBytes |-> 0]
        ELSE IF gotBlockGiB < requestGiB
        THEN [status |-> Status("Internal", "resize requested, but after resizing volume size was"),
              capacityBytes |-> 0]
        ELSE [status |-> OK, capacityBytes |-> gotBlockSizeBytes]

\* the measured size has to exceed the request: "<=" for "<"
ExpandOutcome_Strict(requiredBytes, resizeErr, measureErr, gotBlockSizeBytes) ==
    LET requestGiB == RoundUpGiB(requiredBytes)
        gotBlockGiB == RoundUpGiB(gotBlockSizeBytes)
        retErr == IF resizeErr THEN Status("Internal", "could not resize volume")
                  ELSE NoResult
    IN  IF measureErr
        THEN [status |-> Status("Internal", "could not get size of block volume"),
              capacityBytes |-> 0]
        ELSE IF gotBlockGiB <= requestGiB
        THEN [status |-> IF resizeErr THEN retErr
                         ELSE Status("Internal", "resize requested, but after resizing volume size was"),
              capacityBytes |-> 0]
        ELSE [status |-> OK, capacityBytes |-> gotBlockSizeBytes]

\* NodeExpandVolume from resizeVolume on: resizeErr is the error of
\* resizeVolume, measureErr that of getBlockSizeBytes, got its size
ExpandOutcome(requiredBytes, resizeErr, measureErr, gotBlockSizeBytes) ==
    LET requestGiB == RoundUpGiB(requiredBytes)
        gotBlockGiB == RoundUpGiB(gotBlockSizeBytes)
        retErr == IF resizeErr THEN Status("Internal", "could not resize volume")
                  ELSE NoResult
    IN  IF measureErr
        THEN [status |-> Status("Internal", "could not get size of block volume"),
              capacityBytes |-> 0]
        ELSE IF gotBlockGiB < requestGiB
        THEN [status |-> IF resizeErr THEN retErr
                         ELSE Status("Internal", "resize requested, but after resizing volume size was"),
              capacityBytes |-> 0]
        ELSE [status |-> OK, capacityBytes |-> gotBlockSizeBytes]

\* ------------------------------------------------------------ environment
Never == PollTimeout + 1

\* the device scenarios a call may meet; a healthy disk shows up in time
Devices ==
    IF healthy THEN {Device(0, Never), Device(5, Never)}
    ELSE {Device(0, Never), Device(5, Never), Device(Never, Never), Device(Never, 3)}

\* the faults the utilities may report during one step: none when healthy,
\* else one of the combinations F, each leading the step along another path
Faults(F) == IF healthy THEN {{}} ELSE {{}} \cup F

\* ensureMountPoint: IsLikelyNotMountPoint, IsCorruptedDir, List, ReadDir,
\* Unmount, MakeDir
EnsureFaults ==
    {{"query"}, {"query", "corrupt"}, {"query", "corrupt", "readdir"},
     {"query", "corrupt", "readdir", "unmount"}, {"list"}, {"readdir"},
     {"readdir", "unmount"}, {"mkdir"}}

\* preparePublishPath, ensureBlockTargetFile: MakeFile, Remove
PublishFaults == EnsureFaults \cup {{"prepare"}, {"mkfile"}, {"mkfile", "remove"}}

\* IsLikelyNotMountPoint may miss a bind mount on Linux
Blind(path) == IF goos = "linux" /\ path \in TargetPaths THEN BOOLEAN ELSE {FALSE}

\* performance optimisation: off, not applicable, applied, or failing
PerfOutcomes ==
    IF healthy THEN {"disabled", "unsupported", "optimized"}
    ELSE {"disabled", "unsupported", "optimized", "attrErr", "optErr"}

\* ------------------------------------------------------------- requests
Invalid(r, m) ==
    [r EXCEPT !.missing = m,
              !.vol = IF m = "volumeID" THEN "" ELSE @,
              !.path = IF m = "path" THEN "" ELSE @,
              !.access = IF m = "capability" THEN "nil" ELSE @]

\* The requests the orchestrator sends, by suite:
\*   "lifecycle": the five calls on filesystem-mount volumes v1 and v2;
\*   "block":     raw-block volumes and every shape of attachment slot;
\*   "invalid":   requests that lack a required field, next to valid ones.
Suites == {"lifecycle", "block", "invalid"}

StageRequests ==
    CASE suite = "lifecycle" ->
            {Request("Stage", v, t, "mount", "3", "none") :
                v \in VolumeIDs, t \in StagingPaths}
      [] suite = "block" ->
            {Request("Stage", "v1", t, a, l, "none") :
                t \in StagingPaths, a \in {"mount", "block"}, l \in LunStrs}
      [] OTHER ->
            {Request("Stage", "v1", "/s", "mount", "3", "none"),
             Request("Stage", "v1", "/s", "mount", "absent", "none")}
            \cup {Invalid(Request("Stage", "v1", "/s", "mount", "3", "none"), m) :
                    m \in {"volumeID", "path", "capability", "maxShares", "accessMode"}}

UnstageRequests ==
    CASE suite = "lifecycle" ->
            {Request("Unstage", v, t, "", "", "none") : v \in VolumeIDs, t \in StagingPaths}
      [] suite = "block" ->
            {Request("Unstage", "v1", t, "", "", "none") : t \in StagingPaths}
      [] OTHER ->
            {Request("Unstage", "v1", "/s", "", "", "none")}
            \cup {Invalid(Request("Unstage", "v1", "/s", "", "", "none"), m) :
                    m \in {"volumeID", "path"}}

PublishRequests ==
    CASE suite = "lifecycle" ->
            {Request("Publish", v, t, "mount", "3", "none") :
                v \in VolumeIDs, t \in TargetPaths}
      [] suite = "block" ->
            {Request("Publish", "v1", t, "block", l, "none") :
                t \in TargetPaths, l \in LunStrs}
            \cup {Request("Publish", "v1", t, "mount", "3", "none") : t \in TargetPaths}
      [] OTHER ->
            {Request("Publish", "v1", "/p/f", "mount", "3", "none"),
             Request("Publish", "v1", "/p/f", "block", "absent", "none")}
            \cup {Invalid(Request("Publish", "v1", "/p/f", "mount", "3", "none"), m) :
                    m \in {"volumeID", "capability", "maxShares", "accessMode",
                           "source", "path"}}

UnpublishRequests ==
    CASE suite = "lifecycle" ->
            {Request("Unpublish", v, t, "", "", "none") : v \in VolumeIDs, t \in TargetPaths}
      [] suite = "block" ->
            {Request("Unpublish", "v1", t, "", "", "none") : t \in TargetPaths}
      [] OTHER ->
            {Request("Unpublish", "v1", "/p/f", "", "", "none")}
            \cup {Invalid(Request("Unpublish", "v1", "/p/f", "", "", "none"), m) :
                    m \in {"volumeID", "path"}}

\* access "nil": no capability in the request
ExpandRequests ==
    CASE suite = "lifecycle" ->
            {Request("Expand", v, t, "mount", "", "none") :
                v \in VolumeIDs, t \in StagingPaths}
      [] suite = "block" ->
            {Request("Expand", "v1", t, a, "", "none") :
                t \in StagingPaths \cup TargetPaths, a \in {"nil", "mount", "block"}}
      [] OTHER ->
            {Request("Expand", "v1", "/s", "mount", "", "none")}
            \cup {Invalid(Request("Expand", "v1", "/s", "mount", "", "none"), m) :
                    m \in {"volumeID", "path"}}

\* The checks at the head of each handler, in the handler's order: the
\* message of the first one that fails, "ok" when all pass.
ValidateStage(r) ==
    IF r.vol = "" THEN "Volume ID not provided"
    ELSE IF r.path = "" THEN "Staging target not provided"
    ELSE IF r.access = "nil" THEN "Volume capability not provided"
    ELSE IF r.missing = "maxShares" THEN "MaxShares value not supported"
    ELSE IF r.missing = "accessMode" THEN "invalid access mode"
    ELSE "ok"

ValidateUnstage(r) ==
    IF r.vol = "" THEN "Volume ID not provided"
    ELSE IF r.path = "" THEN "Staging target not provided"
    ELSE "ok"

ValidatePublish(r) ==
    IF r.vol = "" THEN "Volume ID missing in the request"
    ELSE IF r.access = "nil" THEN "Volume capability missing in request"
    ELSE IF r.missing = "maxShares" THEN "MaxShares value not supported"
    ELSE IF r.missing = "accessMode" THEN "invalid access mode"
    ELSE IF r.missing = "source" THEN "Staging target not provided"
    ELSE IF r.path = "" THEN "Target path not provided"
    ELSE "ok"

ValidateUnpublish(r) ==
    IF r.vol = "" THEN "Volume ID missing in the request"
    ELSE IF r.path = "" THEN "Target path missing in request"
    ELSE "ok"

ValidateExpand(r) ==
    IF r.vol = "" THEN "Volume ID not provided"
    ELSE IF r.path = "" THEN "volume path must be provided"
    ELSE "ok"

\* ------------------------------------------------ calls begun in sequence
StageReq == Request("Stage", "v1", "/s", "mount", "3", "none")
PublishReq == Request("Publish", "v1", "/p/f", "mount", "3", "none")
UnpublishReq == Request("Unpublish", "v1", "/p/f", "", "", "none")
UnstageReq == Request("Unstage", "v1", "/s", "", "", "none")

\* the call sequences that are followed from start-up
Scripts == {<<StageReq, PublishReq, UnpublishReq, UnstageReq>>, <<StageReq, StageReq>>}

IsPrefix(a, b) == Len(a) <= Len(b) /\ SubSeq(b, 1, Len(a)) = a

Off == <<NoReq>>

InFlight(p) == pc[p] \notin {"idle", "done"}

\* trail after call p begins request r: it grows while every call begins
\* with no other call in flight, every earlier call of the sequence returned
\* success (Reset) and the sequence is one of Scripts
TrailAfter(r) ==
    IF trail # Off /\ (\A q \in Calls : ~InFlight(q))
       /\ (\E sc \in Scripts : IsPrefix(Append(trail, r), sc))
    THEN Append(trail, r)
    ELSE Off

\* ------------------------------------------------------------------ Init
\* the node before the first call
Start ==
    /\ volumeLocks = {}
    /\ mounts = [x \in Paths |-> IF x = "/" THEN 1 ELSE 0]
    /\ kind = [x \in Paths |-> IF x \in {"/", "/p"} THEN "dir" ELSE "absent"]
    /\ pc = [p \in Calls |-> "idle"]
    /\ req = [p \in Calls |-> NoReq]
    /\ result = [p \in Calls |-> NoResult]
    /\ did = [p \in Calls |-> {}]
    /\ held = [p \in Calls |-> FALSE]
    /\ trail = <<>>
    /\ seq = [p \in Calls |-> 0]

NoFn == [fn |-> "none"]

Init ==
    /\ goos \in {"linux", "windows"}
    /\ healthy \in BOOLEAN
    /\ suite \in Suites
    /\ Start
    /\ fnIn = NoFn
    /\ fnOut = NoFn

\* ------------------------------------------------------- steps of a call
\* The response of a returned call is delivered (Reset) before any other
\* step is taken: Reset touches only the record of the returned call, which
\* no other step reads, so delivering it first loses no state of the locks,
\* the mounts or the calls in flight.
Delivered == \A q \in Calls : pc[q] # "done"

\* call p begins to serve request r
Enter(p, r) ==
    /\ pc[p] = "idle"
    /\ Delivered
    /\ req' = [req EXCEPT ![p] = r]
    /\ trail' = TrailAfter(r)
    /\ seq' = [seq EXCEPT ![p] = IF TrailAfter(r) = Off THEN 0 ELSE Len(TrailAfter(r))]

\* call p returns status st
Return(p, st) ==
    /\ pc' = [pc EXCEPT ![p] = "done"]
    /\ result' = [result EXCEPT ![p] = st]

\* call p goes on to the step at label
Goto(p, label) ==
    /\ pc' = [pc EXCEPT ![p] = label]
    /\ result' = result

Did(p, steps) == did' = [did EXCEPT ![p] = @ \cup steps]

\* the result of TryAcquire is ignored
acquireVolumeLock_Unchecked(locks, volumeID) ==
    [acquired |-> TRUE, locks |-> Acquired(locks, volumeID)]

\* the refused call releases the lock of the volume
acquireVolumeLock_ReleasesOnRefusal(locks, volumeID) ==
    IF TryAcquire(locks, volumeID)
    THEN [acquired |-> TRUE, locks |-> Acquired(locks, volumeID)]
    ELSE [acquired |-> FALSE, locks |-> Release(locks, volumeID)]

\* "if acquired := d.volumeLocks.TryAcquire(id); !acquired { return Aborted }"
acquireVolumeLock(locks, volumeID) ==
    IF TryAcquire(locks, volumeID)
    THEN [acquired |-> TRUE, locks |-> Acquired(locks, volumeID)]
    ELSE [acquired |-> FALSE, locks |-> locks]

\* the deferred Release is missing
deferRelease_Missing(locks, volumeID) == locks

\* "defer d.volumeLocks.Release(id)": the lock table when the call returns
deferRelease(locks, volumeID) == Release(locks, volumeID)

\* call p, holding the lock of its volume, returns st
ReturnLocked(p, st) ==
    /\ Return(p, st)
    /\ volumeLocks' = deferRelease(volumeLocks, req[p].vol)
    /\ held' = [held EXCEPT ![p] = FALSE]

\* a call that finds the lock taken goes on without it
Lock_GoOn(p, r, label) ==
    LET a == acquireVolumeLock(volumeLocks, r.vol)
    IN  /\ volumeLocks' = a.locks
        /\ held' = [held EXCEPT ![p] = a.acquired]
        /\ Goto(p, label)

\* call p takes the lock of its volume or is refused
Lock(p, r, label) ==
    LET a == acquireVolumeLock(volumeLocks, r.vol)
    IN  /\ volumeLocks' = a.locks
        /\ held' = [held EXCEPT ![p] = a.acquired]
        /\ IF a.acquired THEN Goto(p, label) ELSE Return(p, AlreadyExists)

Internal(msg) == Status("Internal", msg)
InvalidArgument(msg) == Status("InvalidArgument", msg)
NotFound(msg) == Status("NotFound", msg)

\* --------------------------------------------------------- NodeStageVolume
\* validation, then TryAcquire
StageBegin(p) ==
    /\ \E r \in StageRequests :
          /\ Enter(p, r)
          /\ IF ValidateStage(r) # "ok"
             THEN Return(p, InvalidArgument(ValidateStage(r)))
                  /\ UNCHANGED <<volumeLocks, held>>
             ELSE Lock(p, r, "locked")
    /\ UNCHANGED <<fnIn, fnOut, goos, healthy, suite, mounts, kind, did>>

\* the slot, the device path, performance tuning, the block short cut
StageDevice(p) ==
    /\ pc[p] = "locked" /\ req[p].op = "Stage"
    /\ Delivered
    /\ \E d \in {getDevicePathWithLUN(req[p].lun, dev) : dev \in Devices},
          perf \in PerfOutcomes :
          LET r == req[p]
          IN  /\ Did(p, IF r.lun # "absent" /\ d.rescan THEN {"rescan", "poll"} ELSE {})
              /\ IF r.lun = "absent"
                 THEN ReturnLocked(p, InvalidArgument("lun not provided"))
                 ELSE IF d.err # "nil"
                 THEN ReturnLocked(p, Internal("failed to find disk on lun"))
                 ELSE IF perf = "attrErr"
                 THEN ReturnLocked(p, Internal("failed to get perf attributes"))
                 ELSE IF perf = "optErr"
                 THEN ReturnLocked(p, Internal("failed to optimize device performance"))
                 ELSE IF r.access = "block"
                 THEN ReturnLocked(p, OK)
                 ELSE Goto(p, "ensure") /\ UNCHANGED <<volumeLocks, held>>
    /\ UNCHANGED <<fnIn, fnOut, goos, healthy, suite, mounts, kind, req, trail, seq>>

\* the early return for an already mounted target is missing
StageEnsure_NoShortCut(p) ==
    /\ pc[p] = "ensure" /\ req[p].op = "Stage"
    /\ Delivered
    /\ \E blind \in Blind(req[p].path),
          f \in Faults(EnsureFaults) :
          LET e == ensureMountPoint(req[p].path, goos, mounts, kind, blind, f)
          IN  /\ mounts' = e.mounts
              /\ kind' = e.kind
              /\ IF e.err # "nil"
                 THEN ReturnLocked(p, Internal("could not mount target"))
                 ELSE Goto(p, "format") /\ UNCHANGED <<volumeLocks, held>>
    /\ Did(p, {"ensure"})
    /\ UNCHANGED <<fnIn, fnOut, goos, healthy, suite, req, trail, seq>>

\* ensureMountPoint; an already mounted target ends the call with success
StageEnsure(p) ==
    /\ pc[p] = "ensure" /\ req[p].op = "Stage"
    /\ Delivered
    /\ \E blind \in Blind(req[p].path),
          f \in Faults(EnsureFaults) :
          LET e == ensureMountPoint(req[p].path, goos, mounts, kind, blind, f)
          IN  /\ mounts' = e.mounts
              /\ kind' = e.kind
              /\ IF e.err # "nil"
                 THEN ReturnLocked(p, Internal("could not mount target"))
                 ELSE IF e.mnt
                 THEN ReturnLocked(p, OK)
                 ELSE Goto(p, "format") /\ UNCHANGED <<volumeLocks, held>>
    /\ Did(p, {"ensure"})
    /\ UNCHANGED <<fnIn, fnOut, goos, healthy, suite, req, trail, seq>>

\* VolumeContext[ResizeRequired], needResizeVolume, resizeVolume
Markers == {"", "true", "TRUE", "false"}
Heuristics == IF healthy THEN {"need", "no"} ELSE {"need", "no", "err"}
Outcomes == IF healthy THEN {TRUE} ELSE BOOLEAN

\* formatAndMount, then the resize decision and the resize
\* NodeStageVolume from formatAndMount to the return: the mount table, the
\* steps made and the status returned
StageFormatAndResize(path, os, m, k, f, marker, heuristic, resizeOK) ==
    LET fm == formatAndMount(path, os, m, k, f)
        rz == StageResize(marker, heuristic, resizeOK)
    IN  IF fm.err # "nil"
        THEN [mounts |-> fm.mounts, kind |-> fm.kind, steps |-> {"format"},
              consulted |-> FALSE,
              status |-> Internal("could not format and mount")]
        ELSE [mounts |-> fm.mounts, kind |-> fm.kind,
              steps |-> {"format", "mount"} \cup (IF rz.attempted THEN {"resize"} ELSE {}),
              consulted |-> rz.consulted,
              status |-> IF rz.err # "nil" THEN Internal("could not resize volume")
                         ELSE OK]

StageFormat(p) ==
    /\ pc[p] = "format" /\ req[p].op = "Stage"
    /\ Delivered
    /\ mounts[req[p].path] < MaxMounts
    /\ \E f \in Faults({{"format"}, {"mount"}}), marker \in Markers,
          heuristic \in Heuristics, resizeOK \in Outcomes :
          LET o == StageFormatAndResize(req[p].path, goos, mounts, kind, f, marker,
                                        heuristic, resizeOK)
          IN  /\ mounts' = o.mounts
              /\ kind' = o.kind
              /\ Did(p, o.steps)
              /\ ReturnLocked(p, o.status)
    /\ UNCHANGED <<fnIn, fnOut, goos, healthy, suite, req, trail, seq>>

\* ------------------------------------------------------- NodeUnstageVolume
UnstageBegin(p) ==
    /\ \E r \in UnstageRequests :
          /\ Enter(p, r)
          /\ IF ValidateUnstage(r) # "ok"
             THEN Return(p, InvalidArgument(ValidateUnstage(r)))
                  /\ UNCHANGED <<volumeLocks, held>>
             ELSE Lock(p, r, "cleanup")
    /\ UNCHANGED <<fnIn, fnOut, goos, healthy, suite, mounts, kind, did>>

UnstageCleanup(p) ==
    /\ pc[p] = "cleanup" /\ req[p].op = "Unstage"
    /\ Delivered
    /\ \E f \in Faults({{"unmount"}, {"remove"}}) :
          LET c == CleanupMountPoint(req[p].path, TRUE, mounts, kind, f)
          IN  /\ mounts' = c.mounts
              /\ kind' = c.kind
              /\ IF c.err # "nil"
                 THEN ReturnLocked(p, Internal("failed to unmount staging target"))
                 ELSE ReturnLocked(p, OK)
    /\ Did(p, {"unmount"})
    /\ UNCHANGED <<fnIn, fnOut, goos, healthy, suite, req, trail, seq>>

\* ------------------------------------------------------- NodePublishVolume
\* NodePublishVolume up to the bind mount: the switch on the access type.
\* d: the outcome of getDevicePathWithLUN (block access).
\* next: "return" with status, or "mount" (go on to mounter.Mount).
PublishOut(next, status, m, k, steps) ==
    [next |-> next, status |-> status, mounts |-> m, kind |-> k, steps |-> steps]

\* the slot is asked for after the target file has been made
PublishSwitch_LateSlotCheck(r, os, m, k, d, blind, f) ==
    IF "prepare" \in f
    THEN PublishOut("return", Internal("Target path could not be prepared"), m, k,
                    {"prepare"})
    ELSE IF r.access = "block"
    THEN LET b == ensureBlockTargetFile(r.path, Dir(r.path), os, m, k, blind, f)
             polled == IF d.rescan THEN {"prepare", "rescan", "poll"} ELSE {"prepare"}
         IN  IF b.err # "nil"
             THEN PublishOut("return", Internal(b.err), b.mounts, b.kind,
                             {"prepare", "ensure"})
             ELSE IF r.lun = "absent"
             THEN PublishOut("return", InvalidArgument("lun not provided"),
                             b.mounts, b.kind, {"prepare", "ensure"})
             ELSE IF d.err # "nil"
             THEN PublishOut("return", Internal("failed to find device path with lun"),
                             b.mounts, b.kind, polled \cup {"ensure"})
             ELSE PublishOut("mount", NoResult, b.mounts, b.kind, polled \cup {"ensure"})
    ELSE LET e == ensureMountPoint(r.path, os, m, k, blind, f)
         IN  IF e.err # "nil"
             THEN PublishOut("return", Internal("could not mount target"),
                             e.mounts, e.kind, {"prepare", "ensure"})
             ELSE IF e.mnt
             THEN PublishOut("return", OK, e.mounts, e.kind, {"prepare", "ensure"})
             ELSE PublishOut("mount", NoResult, e.mounts, e.kind, {"prepare", "ensure"})

PublishSwitch(r, os, m, k, d, blind, f) ==
    IF "prepare" \in f
    THEN PublishOut("return", Internal("Target path could not be prepared"), m, k,
                    {"prepare"})
    ELSE IF r.access = "block"
    THEN LET b == ensureBlockTargetFile(r.path, Dir(r.path), os, m, k, blind, f)
             polled == IF d.rescan THEN {"prepare", "rescan", "poll"} ELSE {"prepare"}
         IN  IF r.lun = "absent"
             THEN PublishOut("return", InvalidArgument("lun not provided"), m, k,
                             {"prepare"})
             ELSE IF d.err # "nil"
             THEN PublishOut("return", Internal("failed to find device path with lun"),
                             m, k, polled)
             ELSE IF b.err # "nil"
             THEN PublishOut("return", Internal(b.err), b.mounts, b.kind,
                             polled \cup {"ensure"})
             ELSE PublishOut("mount", NoResult, b.mounts, b.kind, polled \cup {"ensure"})
    ELSE LET e == ensureMountPoint(r.path, os, m, k, blind, f)
         IN  IF e.err # "nil"
             THEN PublishOut("return", Internal("could not mount target"),
                             e.mounts, e.kind, {"prepare", "ensure"})
             ELSE IF e.mnt
             THEN PublishOut("return", OK, e.mounts, e.kind, {"prepare", "ensure"})
             ELSE PublishOut("mount", NoResult, e.mounts, e.kind, {"prepare", "ensure"})

\* validation, preparePublishPath, the switch on the access type
PublishBegin(p) ==
    /\ \E r \in PublishRequests :
          /\ Enter(p, r)
          /\ IF ValidatePublish(r) # "ok"
             THEN /\ Return(p, InvalidArgument(ValidatePublish(r)))
                  /\ UNCHANGED <<mounts, kind, did>>
             ELSE \E d \in {getDevicePathWithLUN(r.lun, dev) : dev \in Devices},
                     blind \in Blind(r.path),
                     f \in Faults(PublishFaults) :
                     LET o == PublishSwitch(r, goos, mounts, kind, d, blind, f)
                     IN  /\ mounts' = o.mounts
                         /\ kind' = o.kind
                         /\ Did(p, o.steps)
                         /\ IF o.next = "return" THEN Return(p, o.status)
                            ELSE Goto(p, "mount")
    /\ UNCHANGED <<fnIn, fnOut, goos, healthy, suite, volumeLocks, held>>

\* the bind mount of Publish made under the volume lock
PublishMount_Locking(p) ==
    /\ pc[p] = "mount" /\ req[p].op = "Publish"
    /\ Delivered
    /\ mounts[req[p].path] < MaxMounts
    /\ IF TryAcquire(volumeLocks, req[p].vol)
       THEN LET b == Mount(req[p].path, goos, mounts, kind, {})
            IN  mounts' = b.mounts /\ kind' = b.kind /\ Return(p, OK)
       ELSE Return(p, AlreadyExists) /\ UNCHANGED <<mounts, kind>>
    /\ Did(p, {"mount"})
    /\ UNCHANGED <<fnIn, fnOut, goos, healthy, suite, volumeLocks, held, req, trail, seq>>

\* d.mounter.Mount(source, target, "", mountOptions)
PublishMount(p) ==
    /\ pc[p] = "mount" /\ req[p].op = "Publish"
    /\ Delivered
    /\ mounts[req[p].path] < MaxMounts
    /\ \E f \in Faults({{"mount"}}) :
          LET b == Mount(req[p].path, goos, mounts, kind, f)
          IN  /\ mounts' = b.mounts
              /\ kind' = b.kind
              /\ IF b.err # "nil" THEN Return(p, Internal("could not mount"))
                 ELSE Return(p, OK)
    /\ Did(p, {"mount"})
    /\ UNCHANGED <<fnIn, fnOut, goos, healthy, suite, volumeLocks, held, req, trail, seq>>

\* ----------------------------------------------------- NodeUnpublishVolume
UnpublishBegin(p) ==
    /\ \E r \in UnpublishRequests :
          /\ Enter(p, r)
          /\ IF ValidateUnpublish(r) # "ok"
             THEN Return(p, InvalidArgument(ValidateUnpublish(r)))
             ELSE Goto(p, "cleanup")
    /\ UNCHANGED <<fnIn, fnOut, goos, healthy, suite, volumeLocks, held, mounts, kind, did>>

UnpublishCleanup(p) ==
    /\ pc[p] = "cleanup" /\ req[p].op = "Unpublish"
    /\ Delivered
    /\ \E f \in Faults({{"unmount"}, {"remove"}}) :
          LET c == CleanupMountPoint(req[p].path, goos # "windows", mounts, kind, f)
          IN  /\ mounts' = c.mounts
              /\ kind' = c.kind
              /\ IF c.err # "nil"
                 THEN Return(p, Internal("failed to unmount target"))
                 ELSE Return(p, OK)
    /\ Did(p, {"unmount"})
    /\ UNCHANGED <<fnIn, fnOut, goos, healthy, suite, volumeLocks, held, req, trail, seq>>

\* -------------------------------------------------------- NodeExpandVolume
\* hostUtil.PathIsDevice: a block device is bound onto the file of a block
\* publish target
PathIsDevice(path, m, k, f) ==
    IF k[path] = "absent" \/ "stat" \in f THEN [isDevice |-> FALSE, err |-> "StatErr"]
    ELSE [isDevice |-> k[path] = "file" /\ m[path] > 0, err |-> "nil"]

\* getDevicePathWithMountPath: the device mounted at the path
CanFindDevice(path, m, f) == m[path] > 0 /\ "findmnt" \notin f

\* requested and measured sizes, in units of 256 bytes: 4,500,000,000 bytes
\* against 5 GiB and 4 GiB, and a request of exactly 5 GiB
Sizes == {[required |-> 17578125, got |-> 5 * GiB],
          [required |-> 17578125, got |-> 4 * GiB],
          [required |-> 5 * GiB, got |-> 4 * GiB + 1]}

\* the capability is not asked when the path is not a device
ExpandBegin_PathOnly(p) ==
    /\ \E r \in ExpandRequests :
          /\ Enter(p, r)
          /\ IF ValidateExpand(r) # "ok"
             THEN /\ Return(p, InvalidArgument(ValidateExpand(r)))
                  /\ UNCHANGED <<volumeLocks, held, did>>
             ELSE \E f \in Faults({{"stat"}}) :
                     LET i == PathIsDevice(r.path, mounts, kind, f)
                     IN  IF i.err # "nil"
                         THEN /\ Return(p, NotFound("failed to determine device path"))
                              /\ Did(p, {"inspect"})
                              /\ UNCHANGED <<volumeLocks, held>>
                         ELSE IF i.isDevice
                         THEN /\ Return(p, OK)
                              /\ Did(p, {"inspect"})
                              /\ UNCHANGED <<volumeLocks, held>>
                         ELSE /\ Lock(p, r, "resize")
                              /\ Did(p, {"inspect"})
    /\ UNCHANGED <<fnIn, fnOut, goos, healthy, suite, mounts, kind>>

\* validation, PathIsDevice, the block short cut, then TryAcquire
ExpandBegin(p) ==
    /\ \E r \in ExpandRequests :
          /\ Enter(p, r)
          /\ IF ValidateExpand(r) # "ok"
             THEN /\ Return(p, InvalidArgument(ValidateExpand(r)))
                  /\ UNCHANGED <<volumeLocks, held, did>>
             ELSE \E f \in Faults({{"stat"}}), enableDiskOnlineResize \in BOOLEAN :
                     LET i == PathIsDevice(r.path, mounts, kind, f)
                         isBlock == i.isDevice \/ r.access = "block"
                     IN  IF i.err # "nil"
                         THEN /\ Return(p, NotFound("failed to determine device path"))
                              /\ Did(p, {"inspect"})
                              /\ UNCHANGED <<volumeLocks, held>>
                         ELSE IF isBlock
                         THEN /\ Return(p, OK)
                              /\ Did(p, IF enableDiskOnlineResize
                                        THEN {"inspect", "rescanAll"} ELSE {"inspect"})
                              /\ UNCHANGED <<volumeLocks, held>>
                         ELSE /\ Lock(p, r, "resize")
                              /\ Did(p, {"inspect"})
    /\ UNCHANGED <<fnIn, fnOut, goos, healthy, suite, mounts, kind>>

\* the device of the mount, the rescan, the resize and its verification
ExpandResize(p) ==
    /\ pc[p] = "resize" /\ req[p].op = "Expand"
    /\ Delivered
    /\ \E f \in Faults({{"findmnt"}, {"resize"}, {"measure"}, {"resize", "measure"}}), sz \in Sizes,
          enableDiskOnlineResize \in BOOLEAN :
          LET o == ExpandOutcome(sz.required, "resize" \in f, "measure" \in f, sz.got)
          IN  IF ~CanFindDevice(req[p].path, mounts, f)
              THEN /\ ReturnLocked(p, NotFound("failed to find device of the mount"))
                   /\ Did(p, {"findmnt"})
              ELSE /\ ReturnLocked(p, o.status)
                   /\ Did(p, IF enableDiskOnlineResize
                             THEN {"findmnt", "rescanDevice", "resize", "measure"}
                             ELSE {"findmnt", "resize", "measure"})
    /\ UNCHANGED <<fnIn, fnOut, goos, healthy, suite, mounts, kind, req, trail, seq>>

\* ----------------------------------------------------------------- Next
\* the goroutine of a returned call is free to serve another request
Reset(p) ==
    /\ pc[p] = "done"
    /\ pc' = [pc EXCEPT ![p] = "idle"]
    /\ req' = [req EXCEPT ![p] = NoReq]
    /\ result' = [result EXCEPT ![p] = NoResult]
    /\ did' = [did EXCEPT ![p] = {}]
    /\ seq' = [seq EXCEPT ![p] = 0]
    /\ trail' = IF seq[p] > 0 /\ result[p] # OK THEN Off ELSE trail
    /\ UNCHANGED <<fnIn, fnOut, goos, healthy, suite, volumeLocks, mounts, kind, held>>

Next ==
    \E p \in Calls :
        \/ StageBegin(p)
        \/ StageDevice(p)
        \/ StageEnsure(p)
        \/ StageFormat(p)
        \/ UnstageBegin(p)
        \/ UnstageCleanup(p)
        \/ PublishBegin(p)
        \/ PublishMount(p)
        \/ UnpublishBegin(p)
        \/ UnpublishCleanup(p)
        \/ ExpandBegin(p)
        \/ ExpandResize(p)
        \/ Reset(p)

Spec == Init /\ [][Next]_vars

\* ============================================================ NodeGetInfo
\* Instance types are sequences of characters, so that the case of each
\* letter is a matter of the model.
Chars == {"d", "D", "s", "S", "2"}

\* longest instance type looked up
MaxTypeLen == 3

InstanceTypes == UNION {[1..n -> Chars] : n \in 0..MaxTypeLen}

UpperChar(c) ==
    CASE c = "d" -> "D"
      [] c = "s" -> "S"
      [] OTHER -> c

\* strings.ToUpper
ToUpper(str) == [i \in 1..Len(str) |-> UpperChar(str[i])]

\* maxDataDiskCountMap: upper-case instance type -> data disks
maxDataDiskCountMap == (<<"D", "2", "S">> :> 4) @@ (<<"D", "S", "2">> :> 8)

\* the table is searched for the instance type as written
GetMaxDataDiskCount_AsWritten(instanceType) ==
    IF instanceType \in DOMAIN maxDataDiskCountMap
    THEN [count |-> maxDataDiskCountMap[instanceType], exists |-> TRUE]
    ELSE [count |-> defaultAzureVolumeLimit, exists |-> FALSE]

GetMaxDataDiskCount(instanceType) ==
    LET vmsize == ToUpper(instanceType)
    IN  IF vmsize \in DOMAIN maxDataDiskCountMap
        THEN [count |-> maxDataDiskCountMap[vmsize], exists |-> TRUE]
        ELSE [count |-> defaultAzureVolumeLimit, exists |-> FALSE]

\* the zones of a region
KnownZones(region) ==
    CASE region = "eastus" -> {"eastus-1", "eastus-2"}
      [] region = "westus" -> {"westus-1"}
      [] OTHER -> {}

\* azureutils.IsValidAvailabilityZone
IsValidAvailabilityZone(zone, region) == zone \in KnownZones(region)

\* getVMSSInstanceName: the node name of scale-set member "<set>_<n>"
getVMSSInstanceName(computeName) ==
    CASE computeName = "vmss_1" -> [id |-> "vmss000001", err |-> FALSE]
      [] OTHER -> [id |-> "", err |-> TRUE]

\* the zone goes into the segments without IsValidAvailabilityZone
InfoZone_Unvalidated(cfg, env) ==
    LET q == IF cfg.os = "windows" /\ ~cfg.useInstanceMetadata
             THEN env.zoneByNodeName ELSE env.zone
        labelsRead == cfg.getNodeInfoFromLabels \/ q.err
        err == labelsRead /\ env.labels1.err
        failureDomainFromLabels ==
            IF labelsRead /\ ~env.labels1.err THEN env.labels1.zone ELSE ""
        instanceTypeFromLabels ==
            IF labelsRead /\ ~env.labels1.err THEN env.labels1.type ELSE <<>>
        zone0 == IF cfg.getNodeInfoFromLabels \/ q.err THEN "" ELSE q.failureDomain
        failureDomain == IF zone0 = "" THEN failureDomainFromLabels ELSE zone0
    IN  IF ~cfg.supportZone
        THEN [err |-> FALSE, segment |-> "", found |-> "", instanceTypeFromLabels |-> <<>>]
        ELSE IF err
        THEN [err |-> TRUE, segment |-> "", found |-> "", instanceTypeFromLabels |-> <<>>]
        ELSE [err |-> FALSE, segment |-> failureDomain, found |-> failureDomain,
              instanceTypeFromLabels |-> instanceTypeFromLabels]

\* NodeGetInfo, "if d.supportZone": the zone of the topology segments.
\* env.zone: d.cloud.GetZone, env.zoneByNodeName: VMSet.GetZoneByNodeName,
\* env.labels1: the first GetNodeInfoFromLabels of the call.
InfoZone(cfg, env) ==
    LET q == IF cfg.os = "windows" /\ ~cfg.useInstanceMetadata
             THEN env.zoneByNodeName ELSE env.zone
        labelsRead == cfg.getNodeInfoFromLabels \/ q.err
        err == labelsRead /\ env.labels1.err
        failureDomainFromLabels ==
            IF labelsRead /\ ~env.labels1.err THEN env.labels1.zone ELSE ""
        instanceTypeFromLabels ==
            IF labelsRead /\ ~env.labels1.err THEN env.labels1.type ELSE <<>>
        zone0 == IF cfg.getNodeInfoFromLabels \/ q.err THEN "" ELSE q.failureDomain
        failureDomain == IF zone0 = "" THEN failureDomainFromLabels ELSE zone0
    IN  IF ~cfg.supportZone
        THEN [err |-> FALSE, segment |-> "", found |-> "", instanceTypeFromLabels |-> <<>>]
        ELSE IF err
        THEN [err |-> TRUE, segment |-> "", found |-> "", instanceTypeFromLabels |-> <<>>]
        ELSE [err |-> FALSE,
              segment |-> IF IsValidAvailabilityZone(failureDomain, cfg.location)
                          THEN failureDomain ELSE "",
              found |-> failureDomain,
              instanceTypeFromLabels |-> instanceTypeFromLabels]

\* the reserved slots are taken off the configured attach limit as well
InfoCount_ReservedOffLimit(cfg, env, fromLabels) ==
    LET labels2 == IF env.labels2.err THEN <<>> ELSE env.labels2.type
        instanceType ==
            IF cfg.getNodeInfoFromLabels THEN <<>>
            ELSE IF cfg.os = "windows" /\ cfg.useInstanceMetadata
            THEN IF ~env.metadata.err /\ env.metadata.compute
                 THEN env.metadata.vmSize ELSE <<>>
            ELSE IF ~env.instances.ok \/ env.instances.err THEN <<>>
                 ELSE env.instances.type
        instanceTypeFromLabels ==
            IF instanceType = <<>> /\ fromLabels = <<>> THEN labels2 ELSE fromLabels
        resolved == IF instanceType = <<>> THEN instanceTypeFromLabels ELSE instanceType
    IN  IF cfg.VolumeAttachLimit >= 0
        THEN [count |-> cfg.VolumeAttachLimit - cfg.ReservedDataDiskSlotNum,
              looked |-> FALSE, type |-> <<>>]
        ELSE [count |-> GetMaxDataDiskCount(resolved).count - cfg.ReservedDataDiskSlotNum,
              looked |-> TRUE, type |-> resolved]

\* NodeGetInfo, "maxDataDiskCount := d.VolumeAttachLimit": fromLabels is
\* instanceTypeFromLabels as the zone part left it, env.labels2 the
\* GetNodeInfoFromLabels made here, env.metadata d.cloud.Metadata.GetMetadata,
\* env.instances d.cloud.Instances() and its InstanceType.
InfoCount(cfg, env, fromLabels) ==
    LET labels2 == IF env.labels2.err THEN <<>> ELSE env.labels2.type
        instanceType ==
            IF cfg.getNodeInfoFromLabels THEN <<>>
            ELSE IF cfg.os = "windows" /\ cfg.useInstanceMetadata
            THEN IF ~env.metadata.err /\ env.metadata.compute
                 THEN env.metadata.vmSize ELSE <<>>
            ELSE IF ~env.instances.ok \/ env.instances.err THEN <<>>
                 ELSE env.instances.type
        instanceTypeFromLabels ==
            IF instanceType = <<>> /\ fromLabels = <<>> THEN labels2 ELSE fromLabels
        resolved == IF instanceType = <<>> THEN instanceTypeFromLabels ELSE instanceType
    IN  IF cfg.VolumeAttachLimit >= 0
        THEN [count |-> cfg.VolumeAttachLimit, looked |-> FALSE, type |-> <<>>]
        ELSE [count |-> GetMaxDataDiskCount(resolved).count - cfg.ReservedDataDiskSlotNum,
              looked |-> TRUE, type |-> resolved]

\* the scale set is not looked at: the metadata name is the node ID
InfoNodeID_NoScaleSet(cfg, env) ==
    LET md == env.metadata
    IN  IF ~(cfg.getNodeIDFromIMDS /\ cfg.useInstanceMetadata) THEN cfg.NodeID
        ELSE IF md.err \/ ~md.compute THEN cfg.NodeID
        ELSE IF md.name = "" THEN cfg.NodeID
        ELSE md.name

\* NodeGetInfo, "nodeID := d.NodeID": the node ID of the response
InfoNodeID(cfg, env) ==
    LET md == env.metadata
        decoded == getVMSSInstanceName(md.name)
    IN  IF ~(cfg.getNodeIDFromIMDS /\ cfg.useInstanceMetadata) THEN cfg.NodeID
        ELSE IF md.err \/ ~md.compute THEN cfg.NodeID
        ELSE IF md.name = "" THEN cfg.NodeID
        ELSE IF md.vmScaleSetName = "" THEN md.name
        ELSE IF ~decoded.err THEN decoded.id
        ELSE IF cfg.NodeID = "" THEN md.name
        ELSE cfg.NodeID

\* NodeGetInfo. cfg: the fields of the driver (useInstanceMetadata:
\* d.cloud.UseInstanceMetadata && d.cloud.Metadata != nil); env: what the
\* cloud provider and the node labels answer during the call.
\* the error of the zone sources does not end the call
NodeGetInfo_ZoneErrorDropped(cfg, env) ==
    LET z == InfoZone(cfg, env)
        c == InfoCount(cfg, env, z.instanceTypeFromLabels)
    IN  [status |-> OK,
         nodeID |-> InfoNodeID(cfg, env),
         maxVolumes |-> c.count,
         segment |-> z.segment,
         wellKnown |-> z.segment,
         found |-> z.found,
         looked |-> c.looked,
         type |-> c.type]

NodeGetInfo(cfg, env) ==
    LET z == InfoZone(cfg, env)
        c == InfoCount(cfg, env, z.instanceTypeFromLabels)
    IN  IF z.err
        THEN [status |-> Status("Internal", "GetNodeInfoFromLabels failed"),
              nodeID |-> "", maxVolumes |-> 0, segment |-> "", wellKnown |-> "",
              found |-> "", looked |-> FALSE, type |-> <<>>]
        ELSE [status |-> OK,
              nodeID |-> InfoNodeID(cfg, env),
              maxVolumes |-> c.count,
              segment |-> z.segment,       \* Segments[topologyKey]
              wellKnown |-> z.segment,     \* Segments[consts.WellKnownTopologyKey]
              found |-> z.found,           \* zone.FailureDomain before validation
              looked |-> c.looked,         \* GetMaxDataDiskCount was called
              type |-> c.type]             \* with this instance type

\* ------------------------------------------------ arguments of NodeGetInfo
Zones == {"", "eastus-1", "westus-1", "0"}

ZoneAnswers ==
    {[err |-> TRUE, failureDomain |-> ""]}
    \cup {[err |-> FALSE, failureDomain |-> z] : z \in {"", "eastus-1", "westus-1"}}

LabelAnswers ==
    {[err |-> TRUE, zone |-> "", type |-> <<>>]}
    \cup {[err |-> FALSE, zone |-> z, type |-> t] :
            z \in Zones, t \in {<<>>, <<"d", "2", "s">>}}

TypeAnswers ==
    {[err |-> TRUE, zone |-> "", type |-> <<>>]}
    \cup {[err |-> FALSE, zone |-> "", type |-> t] : t \in {<<>>, <<"D", "s", "2">>}}

InstanceAnswers ==
    {[ok |-> FALSE, err |-> FALSE, type |-> <<>>],
     [ok |-> TRUE, err |-> TRUE, type |-> <<>>]}
    \cup {[ok |-> TRUE, err |-> FALSE, type |-> t] :
            t \in {<<>>, <<"d", "2", "S">>, <<"d", "d">>}}

Metadata(err, compute, name, vmss, vmSize) ==
    [err |-> err, compute |-> compute, name |-> name, vmScaleSetName |-> vmss,
     vmSize |-> vmSize]

SizeMetadata ==
    {Metadata(TRUE, FALSE, "", "", <<>>), Metadata(FALSE, FALSE, "", "", <<>>)}
    \cup {Metadata(FALSE, TRUE, "vm", "", t) : t \in {<<>>, <<"d", "s", "2">>}}

NameMetadata ==
    {Metadata(TRUE, FALSE, "", "", <<>>), Metadata(FALSE, FALSE, "", "", <<>>)}
    \cup {Metadata(FALSE, TRUE, n, v, <<"d", "2", "s">>) :
            n \in {"", "vm", "vmss_1", "vmss_x"}, v \in {"", "vmss"}}

Config(supportZone, fromLabels, os, imds, limit, reserved, idFromIMDS, nodeID) ==
    [supportZone |-> supportZone, getNodeInfoFromLabels |-> fromLabels, os |-> os,
     useInstanceMetadata |-> imds, VolumeAttachLimit |-> limit,
     ReservedDataDiskSlotNum |-> reserved, getNodeIDFromIMDS |-> idFromIMDS,
     NodeID |-> nodeID, location |-> "eastus"]

Answers(zoneByNodeName, zone, labels1, labels2, instances, metadata) ==
    [zoneByNodeName |-> zoneByNodeName, zone |-> zone, labels1 |-> labels1,
     labels2 |-> labels2, instances |-> instances, metadata |-> metadata]

GoodZone == [err |-> FALSE, failureDomain |-> "eastus-1"]
GoodLabels == [err |-> FALSE, zone |-> "eastus-2", type |-> <<"d", "2", "s">>]
GoodInstances == [ok |-> TRUE, err |-> FALSE, type |-> <<"d", "2", "S">>]
GoodMetadata == Metadata(FALSE, TRUE, "vm", "", <<"d", "s", "2">>)

\* the zone part: every configuration, every answer about the zone
InfoZoneInputs ==
    {[fn |-> "info",
      cfg |-> Config(sz, lb, o, im, -1, 0, FALSE, "node"),
      env |-> Answers(zn, zq, l1, GoodLabels, GoodInstances, GoodMetadata)] :
        sz \in BOOLEAN, lb \in BOOLEAN, o \in {"linux", "windows"}, im \in BOOLEAN,
        zn \in ZoneAnswers, zq \in ZoneAnswers, l1 \in LabelAnswers}

\* the volume count: attach limits, reserved slots, answers about the type
InfoCountInputs ==
    {[fn |-> "info",
      cfg |-> Config(TRUE, lb, o, im, lim, rs, FALSE, "node"),
      env |-> Answers(GoodZone, GoodZone, l1, l2, ins, md)] :
        lb \in BOOLEAN, o \in {"linux", "windows"}, im \in BOOLEAN,
        lim \in {-1, 0, 8}, rs \in {0, 2},
        l1 \in TypeAnswers, l2 \in TypeAnswers, ins \in InstanceAnswers,
        md \in SizeMetadata}

\* the node ID: the override, the configured ID, the metadata
InfoNodeIDInputs ==
    {[fn |-> "info",
      cfg |-> Config(TRUE, FALSE, "linux", im, 8, 0, idm, id),
      env |-> Answers(GoodZone, GoodZone, GoodLabels, GoodLabels, GoodInstances, md)] :
        im \in BOOLEAN, idm \in BOOLEAN, id \in {"", "node"}, md \in NameMetadata}

MaxDisksInputs == {[fn |-> "maxdisks", type |-> t] : t \in InstanceTypes}

\* ensureMountPoint on the staging path: absent, a directory, or a directory
\* with one or two mount entries; every fault of the utilities
EnsureInputs ==
    {i \in {[fn |-> "ensure", os |-> o, target |-> "/s",
             m |-> [x \in Paths |-> IF x = "/" THEN 1 ELSE IF x = "/s" THEN n ELSE 0],
             k |-> [x \in Paths |-> IF x \in {"/", "/p"} THEN "dir"
                                     ELSE IF x = "/s" THEN kd ELSE "absent"],
             blind |-> bl, f |-> f] :
                o \in {"linux", "windows"}, n \in 0..MaxMounts, kd \in {"absent", "dir"},
                bl \in BOOLEAN, f \in {{}} \cup EnsureFaults} :
        i.m["/s"] > 0 => i.k["/s"] = "dir"}

\* ============================================ the functions of the driver
\* SpecFn applies getDevicePathWithLUN, the outcome of NodeExpandVolume and
\* the mount arguments of NodeStageVolume to arguments drawn at the start.

\* seconds after the first poll at which a device node shows up, or the
\* lookup starts to fail
AppearTimes == {0, 1, 5, PollTimeout - 1, PollTimeout, Never}
ErrTimes == {0, 3, PollTimeout, Never}

LocateInputs ==
    {[fn |-> "locate", lun |-> l, dev |-> Device(a, e)] :
        l \in LunStrs, a \in AppearTimes, e \in ErrTimes}

\* 4,500,000,000 bytes in units of 256 bytes: 45 * 10^8 / 2^8 = 45 * 5^8
Bytes4500000000 == 45 * 390625

ByteSizes == {0, 1, 4 * GiB, 4 * GiB + 1, Bytes4500000000, 5 * GiB, 5 * GiB + 1}

ExpandInputs ==
    {[fn |-> "expand", required |-> rq, resizeErr |-> re, measureErr |-> me, got |-> g] :
        rq \in ByteSizes, re \in BOOLEAN, me \in BOOLEAN, g \in ByteSizes}

FsTypes == {"", "ext4", "xfs", "XFS"}
MountFlags == {<<>>, <<"ro">>, <<"nouuid">>, <<"ro", "noatime">>}

\* the capability has the mount access type: a block capability returns
\* before the arguments are computed, one with neither type is not valid
ArgsInputs ==
    {[fn |-> "args", os |-> o, cap |-> [mount |-> TRUE, fsType |-> t, flags |-> fl],
      ctx |-> c] :
        o \in {"linux", "windows"}, t \in FsTypes, fl \in MountFlags, c \in FsTypes}

\* NodePublishVolume of a raw-block volume on /p/f: the target absent, a
\* file (bound or not) or a directory; the device found or not; the faults of
\* preparePublishPath, MakeDir, MakeFile and Remove
PublishBlockInputs ==
    {i \in {[fn |-> "publish", os |-> o,
             r |-> Request("Publish", "v1", "/p/f", "block", l, "none"),
             m |-> [x \in Paths |-> IF x = "/" THEN 1 ELSE IF x = "/p/f" THEN n ELSE 0],
             k |-> [x \in Paths |-> IF x \in {"/", "/p"} THEN "dir"
                                     ELSE IF x = "/p/f" THEN kd ELSE "absent"],
             dev |-> dv, blind |-> bl, f |-> f] :
                o \in {"linux", "windows"}, l \in LunStrs, n \in 0..1,
                kd \in {"absent", "file", "dir"},
                dv \in {Device(0, Never), Device(Never, Never)}, bl \in BOOLEAN,
                f \in {{}, {"prepare"}, {"mkdir"}, {"mkfile"}, {"mkfile", "remove"}}} :
        i.m["/p/f"] > 0 => i.k["/p/f"] = "file"}

\* NodeStageVolume from formatAndMount on: the staging path made by
\* ensureMountPoint, the marker in every case, each answer of the heuristic
\* and of the resize
ResizeInputs ==
    {[fn |-> "resize", os |-> o, path |-> "/s",
      m |-> [x \in Paths |-> IF x = "/" THEN 1 ELSE 0],
      k |-> [x \in Paths |-> IF x \in {"/", "/p", "/s"} THEN "dir" ELSE "absent"],
      f |-> f, marker |-> mk, heuristic |-> h, resizeOK |-> ok] :
        o \in {"linux", "windows"}, f \in {{}, {"format"}, {"mount"}},
        mk \in {"", "true", "TRUE", "True", "false"}, h \in {"need", "no", "err"},
        ok \in BOOLEAN}

InitFn ==
    /\ goos = "linux"
    /\ healthy = TRUE
    /\ suite = "lifecycle"
    /\ Start
    /\ fnIn \in LocateInputs \cup ExpandInputs \cup ArgsInputs \cup InfoZoneInputs
                \cup InfoCountInputs \cup InfoNodeIDInputs \cup MaxDisksInputs
                \cup EnsureInputs \cup PublishBlockInputs
                \cup ResizeInputs
    /\ fnOut = NoFn

FnRest ==
    <<fnIn, goos, healthy, suite, volumeLocks, mounts, kind, pc, req, result, did, held,
      trail, seq>>

Locate ==
    /\ fnIn.fn = "locate" /\ fnOut = NoFn
    /\ fnOut' = [fn |-> "locate", r |-> getDevicePathWithLUN(fnIn.lun, fnIn.dev)]
    /\ UNCHANGED FnRest

Expand ==
    /\ fnIn.fn = "expand" /\ fnOut = NoFn
    /\ fnOut' = [fn |-> "expand",
                 r |-> ExpandOutcome(fnIn.required, fnIn.resizeErr, fnIn.measureErr,
                                     fnIn.got)]
    /\ UNCHANGED FnRest

MountArgs ==
    /\ fnIn.fn = "args" /\ fnOut = NoFn
    /\ fnOut' = [fn |-> "args", r |-> StageMountArgs(fnIn.os, fnIn.cap, fnIn.ctx)]
    /\ UNCHANGED FnRest

GetInfo ==
    /\ fnIn.fn = "info" /\ fnOut = NoFn
    /\ fnOut' = [fn |-> "info", r |-> NodeGetInfo(fnIn.cfg, fnIn.env)]
    /\ UNCHANGED FnRest

MaxDisks ==
    /\ fnIn.fn = "maxdisks" /\ fnOut = NoFn
    /\ fnOut' = [fn |-> "maxdisks", r |-> GetMaxDataDiskCount(fnIn.type)]
    /\ UNCHANGED FnRest

Ensure ==
    /\ fnIn.fn = "ensure" /\ fnOut = NoFn
    /\ fnOut' = [fn |-> "ensure",
                 r |-> ensureMountPoint(fnIn.target, fnIn.os, fnIn.m, fnIn.k, fnIn.blind,
                                        fnIn.f)]
    /\ UNCHANGED FnRest

PublishBlock ==
    /\ fnIn.fn = "publish" /\ fnOut = NoFn
    /\ fnOut' = [fn |-> "publish",
                 r |-> PublishSwitch(fnIn.r, fnIn.os, fnIn.m, fnIn.k,
                                     getDevicePathWithLUN(fnIn.r.lun, fnIn.dev),
                                     fnIn.blind, fnIn.f)]
    /\ UNCHANGED FnRest

Resize ==
    /\ fnIn.fn = "resize" /\ fnOut = NoFn
    /\ fnOut' = [fn |-> "resize",
                 r |-> StageFormatAndResize(fnIn.path, fnIn.os, fnIn.m, fnIn.k, fnIn.f,
                                            fnIn.marker, fnIn.heuristic, fnIn.resizeOK)]
    /\ UNCHANGED FnRest

NextFn ==
    \/ Locate \/ Expand \/ MountArgs \/ GetInfo \/ MaxDisks \/ Ensure \/ PublishBlock
    \/ Resize

SpecFn == InitFn /\ [][NextFn]_vars

\* ================================================================ claims
LockOps == {"Stage", "Unstage", "Expand"}
PublishOps == {"Publish", "Unpublish"}
Returned(p) == pc[p] = "done"
Refused(p) == Returned(p) /\ result[p].code = "Aborted"

\* the steps on the device, the file system and the mount table
DeviceMountSteps ==
    {"rescan", "poll", "ensure", "format", "mount", "resize", "measure", "unmount",
     "findmnt"}

\* C1: for every volume ID at most one Stage, Unstage or Expand call is
\* between its successful TryAcquire and its return, and the lock of one
\* volume never refuses a call for another: a refused call always finds a
\* call in flight that holds the lock of the same volume ID.
C1_OneCallPerVolume ==
    /\ \A p, q \in Calls :
          (p # q /\ held[p] /\ held[q]) => req[p].vol # req[q].vol
    /\ \A p \in Calls : held[p] => (req[p].op \in LockOps /\ req[p].vol \in volumeLocks)
    /\ \A p \in Calls :
          Refused(p) => \E q \in Calls \ {p} : held[q] /\ req[q].vol = req[p].vol

\* two calls hold locks at the same time, for different volume IDs
C1_Witness ==
    \E p, q \in Calls : p # q /\ held[p] /\ held[q] /\ req[p].vol # req[q].vol

\* C2: of two overlapping Stage/Unstage/Expand calls for one volume ID the
\* one that finds the lock taken returns Aborted at once: the holder is
\* still in flight when it returns, it has run no device, format, mount or
\* resize step and holds nothing; no call is past the lock without holding it.
C2_RefusedAtOnce ==
    /\ \A p \in Calls :
          Refused(p) =>
             /\ req[p].op \in LockOps
             /\ result[p] = AlreadyExists
             /\ did[p] \cap DeviceMountSteps = {}
             /\ ~held[p]
             /\ \E q \in Calls \ {p} :
                   InFlight(q) /\ held[q] /\ req[q].vol = req[p].vol
    /\ \A p \in Calls :
          (InFlight(p) /\ req[p].op \in LockOps) => held[p]

\* a Stage call is refused while an Unstage call of the volume holds the lock
C2_Witness ==
    \E p, q \in Calls :
        /\ Refused(p) /\ req[p].op = "Stage"
        /\ InFlight(q) /\ held[q] /\ req[q].op = "Unstage" /\ req[q].vol = req[p].vol

\* C3: a call that took the volume lock has released it when it returns,
\* whatever the exit: every lock in the table belongs to a call in flight, so
\* with no call of a volume in flight the volume's lock is free.
C3_ReleasedOnReturn ==
    /\ \A p \in Calls : ~InFlight(p) => ~held[p]
    /\ \A v \in volumeLocks :
          \E p \in Calls : InFlight(p) /\ held[p] /\ req[p].vol = v

\* an Expand call that took the lock and failed after the resize has
\* returned, and no lock is left
C3_Witness ==
    \E p \in Calls :
        /\ Returned(p) /\ req[p].op = "Expand" /\ result[p].code = "Internal"
        /\ "resize" \in did[p]
        /\ volumeLocks = {}

\* C4: Publish and Unpublish leave the lock table alone: no step of theirs
\* changes it, they never hold a lock and never return the contention error.
C4_PublishLockFree ==
    /\ [](\A p \in Calls :
            req[p].op \in PublishOps => (~held[p] /\ result[p].code # "Aborted"))
    /\ [][\A p \in Calls :
            (pc'[p] # pc[p] /\ (req[p].op \in PublishOps \/ req'[p].op \in PublishOps))
               => volumeLocks' = volumeLocks]_vars

\* a Publish call has mounted and returned success while a Stage call of the
\* same volume holds the lock
C4_Witness ==
    \E p, q \in Calls :
        /\ Returned(p) /\ req[p].op = "Publish" /\ result[p] = OK /\ "mount" \in did[p]
        /\ held[q] /\ req[q].op = "Stage" /\ req[q].vol = req[p].vol

StageTwice == <<StageReq, StageReq>>
RoundTrip == <<StageReq, PublishReq, UnpublishReq, UnstageReq>>

\* C5: with a healthy device and healthy utilities, a second Stage of a
\* file system volume that follows a successful Stage on the same staging
\* path returns success, calls neither format/mount nor resize, and leaves the
\* staging path with the one mount entry the first call made.
C5_StageIdempotent ==
    \A p \in Calls :
        (healthy /\ trail = StageTwice /\ seq[p] = 2) =>
            /\ mounts["/s"] = 1 /\ kind["/s"] = "dir"
            /\ did[p] \cap {"format", "mount", "resize"} = {}
            /\ Returned(p) => result[p] = OK

\* the second Stage has inspected the mount point and returned success
C5_Witness ==
    \E p \in Calls :
        /\ healthy /\ trail = StageTwice /\ seq[p] = 2
        /\ Returned(p) /\ result[p] = OK /\ "ensure" \in did[p]

\* C6: with a healthy device, Stage, Publish, Unpublish and Unstage of one
\* volume, called one after the other from the start, each return success,
\* and when Unstage returns neither the staging path nor the publish path has
\* a mount entry and no volume lock is held.
C6_RoundTrip ==
    \A p \in Calls :
        (healthy /\ IsPrefix(trail, RoundTrip) /\ seq[p] = Len(trail) /\ seq[p] > 0
         /\ Returned(p)) =>
            /\ result[p] = OK
            /\ seq[p] = 4 => (mounts["/s"] = 0 /\ mounts["/p/f"] = 0 /\ volumeLocks = {})

\* Unstage, the last of the four calls, has returned success
C6_Witness ==
    \E p \in Calls :
        /\ healthy /\ trail = RoundTrip /\ seq[p] = 4 /\ req[p] = UnstageReq
        /\ Returned(p) /\ result[p] = OK
        /\ mounts["/s"] = 0 /\ mounts["/p/f"] = 0

Located == fnOut.fn = "locate" /\ GetDiskLUN(fnIn.lun).err = "nil"

\* the seconds, up to the deadline, at which a poll sees a device node / fails
Visible == {t \in 0..PollTimeout : fnIn.dev.appearAt <= t /\ fnIn.dev.errAt > t}
Failing == {t \in 0..PollTimeout : fnIn.dev.errAt <= t}
First(S) == CHOOSE t \in S : \A u \in S : t <= u

\* what C7 says of every outcome but a failure
C7_PollsAndPath ==
    LET o == fnOut.r
    IN  /\ o.rescan
        /\ o.polls = o.elapsed + 1
        /\ o.err = "nil" =>
              (o.path # "" /\ Visible # {} /\ o.elapsed = First(Visible))
        /\ (Visible # {} /\ (Failing = {} \/ First(Visible) < First(Failing)))
              => o.err = "nil"

\* C7 as stated: for a valid slot the device is looked for at once and then
\* every second, the path is returned at the first poll that sees the device,
\* and a failure is returned only when the 2-minute deadline has elapsed.
C7_FailsOnlyAtDeadline ==
    Located =>
        /\ C7_PollsAndPath
        /\ fnOut.r.err # "nil" => (fnOut.r.elapsed = PollTimeout /\ Visible = {})

\* C7 (amended): for a valid slot the device is looked for at once and then
\* every second and the path is returned at the first poll that sees the
\* device; a failure is either the error of the device lookup, returned at
\* the poll that met it, or the timeout, returned when the 2 minutes have
\* elapsed with no poll seeing the device; the rescan never fails the call.
C7_FailsOnLookupErrorOrDeadline ==
    Located =>
        /\ C7_PollsAndPath
        /\ fnOut.r.err # "nil" =>
              /\ fnOut.r.path = ""
              /\ \/ /\ fnOut.r.err = "LookupErr"
                    /\ Failing # {} /\ fnOut.r.elapsed = First(Failing)
                 \/ /\ fnOut.r.err = "Timeout"
                    /\ Failing = {} /\ Visible = {}
                    /\ fnOut.r.elapsed = PollTimeout

\* the lookup has failed 3 seconds after the first poll, at the fourth poll
C7_Witness ==
    /\ Located
    /\ fnOut.r.err = "LookupErr" /\ fnOut.r.elapsed = 3 /\ fnOut.r.polls = 4

\* the least number of whole GiB that hold n
CeilGiB(n) == CHOOSE g \in 0..6 : g * GiB >= n /\ (g = 0 \/ (g - 1) * GiB < n)

Measured == fnOut.fn = "expand" /\ ~fnIn.measureErr

\* C8: when the size after the resize was measured, Expand returns success
\* with the measured size if that size, in whole GiB rounded up, is at least
\* the request rounded up, also when the resize reported an error; if it is
\* less, Expand returns the resize error when there is one and else the
\* Internal error about the size after resizing.
C8_OutcomeFromMeasuredSize ==
    Measured =>
        IF CeilGiB(fnIn.got) >= CeilGiB(fnIn.required)
        THEN fnOut.r = [status |-> OK, capacityBytes |-> fnIn.got]
        ELSE fnOut.r.status =
                IF fnIn.resizeErr THEN Internal("could not resize volume")
                ELSE Internal("resize requested, but after resizing volume size was")

\* the resize failed, the measured size suffices: success
C8_Witness ==
    /\ Measured /\ fnIn.resizeErr
    /\ fnIn.required = Bytes4500000000 /\ fnIn.got = 5 * GiB + 1
    /\ fnOut.r.status = OK /\ fnOut.r.capacityBytes = 5 * GiB + 1

\* C9: the request is rounded up to whole GiB, never down: 4,500,000,000
\* bytes ask for 5 GiB, which a measured 5 GiB meets and a measured 4 GiB
\* does not; a measured size of at least the request is always success.
C9_RoundsUp ==
    Measured =>
        /\ RoundUpGiB(fnIn.required) * GiB >= fnIn.required
        /\ RoundUpGiB(fnIn.required) = CeilGiB(fnIn.required)
        /\ fnIn.required = Bytes4500000000 =>
              /\ RoundUpGiB(fnIn.required) = 5
              /\ fnIn.got = 5 * GiB => fnOut.r.status = OK
              /\ fnIn.got = 4 * GiB => fnOut.r.status.code = "Internal"
        /\ fnIn.got >= fnIn.required => fnOut.r.status = OK

\* 4,500,000,000 bytes requested, 4 GiB measured, no resize error: failure
C9_Witness ==
    /\ Measured /\ ~fnIn.resizeErr
    /\ fnIn.required = Bytes4500000000 /\ fnIn.got = 4 * GiB
    /\ fnOut.r.status = Internal("resize requested, but after resizing volume size was")

\* C10: when the file system type Stage formats and mounts with is xfs, the
\* options it mounts with contain "nouuid", whatever the mount flags and
\* whichever of volume context, capability and platform default set the type.
C10_XfsHasNouuid ==
    (fnOut.fn = "args" /\ fnOut.r.fstype = "xfs") =>
        \E i \in 1..Len(fnOut.r.options) : fnOut.r.options[i] = "nouuid"

\* the attribute as written, but for the case of its letters
SameButCase(a, b) ==
    \/ a = b
    \/ {a, b} = {"xfs", "XFS"}
    \/ {a, b} = {"ext4", "EXT4"}

\* C11: the file system type Stage formats and mounts with is the fstype
\* attribute of the volume context when that is not empty (in lower case),
\* else the type of the mount capability when that is not empty, else the
\* default of the platform: ext4 on Linux, ntfs on Windows.
C11_FsTypePrecedence ==
    fnOut.fn = "args" =>
        IF fnIn.ctx # ""
        THEN SameButCase(fnOut.r.fstype, fnIn.ctx)
        ELSE IF fnIn.cap.fsType # ""
        THEN fnOut.r.fstype = fnIn.cap.fsType
        ELSE fnOut.r.fstype = (IF fnIn.os = "windows" THEN "ntfs" ELSE "ext4")

\* the volume context says xfs, the capability ext4: xfs it is
C11_Witness ==
    /\ fnOut.fn = "args"
    /\ fnIn.ctx = "xfs" /\ fnIn.cap.fsType = "ext4"
    /\ fnOut.r.fstype = "xfs"

Informed == fnOut.fn = "info"

\* the read of the node labels that serves the zone was made and failed
ZoneLabelsFailed ==
    LET c == fnIn.cfg
        q == IF c.os = "windows" /\ ~c.useInstanceMetadata
             THEN fnIn.env.zoneByNodeName ELSE fnIn.env.zone
    IN  c.supportZone /\ (c.getNodeInfoFromLabels \/ q.err) /\ fnIn.env.labels1.err

\* C12: whichever source gave the zone, the topology segments of a
\* GetNodeInfo response hold a non-empty zone only if it is a known zone of
\* the node's region; a zone that is not is left out, the segment stays
\* empty, and the call does not fail for it.
C12_OnlyValidZones ==
    Informed =>
        /\ fnOut.r.wellKnown = fnOut.r.segment
        /\ fnOut.r.segment # "" =>
              /\ fnOut.r.segment \in {"eastus-1", "eastus-2"}
              /\ fnOut.r.segment \in {fnIn.env.zone.failureDomain,
                                       fnIn.env.zoneByNodeName.failureDomain,
                                       fnIn.env.labels1.zone}
        /\ ~ZoneLabelsFailed =>
              /\ fnOut.r.status = OK
              /\ fnOut.r.found \notin {"eastus-1", "eastus-2"} => fnOut.r.segment = ""
        /\ fnOut.r.status # OK => ZoneLabelsFailed

\* the zone query failed, the labels name a zone of another region: the
\* call succeeds with an empty segment
C12_Witness ==
    /\ Informed /\ fnIn.cfg.supportZone /\ ~fnIn.cfg.getNodeInfoFromLabels
    /\ fnIn.cfg.os = "linux" /\ fnIn.env.zone.err
    /\ fnIn.env.labels1.zone = "westus-1"
    /\ fnOut.r.status = OK /\ fnOut.r.segment = "" /\ fnOut.r.found = "westus-1"

\* C13: with an attach limit >= 0 configured the response carries it as it
\* is, with no lookup and no reserved slots taken off; else it carries the
\* table value of the resolved instance type, 16 when the type has no entry
\* or was not resolved, minus the reserved slots; and no failure to resolve
\* the instance type fails the call.
C13_MaxVolumes ==
    Informed =>
        /\ ~ZoneLabelsFailed => fnOut.r.status = OK
        /\ fnOut.r.status = OK =>
              IF fnIn.cfg.VolumeAttachLimit >= 0
              THEN fnOut.r.maxVolumes = fnIn.cfg.VolumeAttachLimit /\ ~fnOut.r.looked
              ELSE /\ fnOut.r.looked
                   /\ fnOut.r.maxVolumes + fnIn.cfg.ReservedDataDiskSlotNum =
                         (IF ToUpper(fnOut.r.type) = <<"D", "2", "S">> THEN 4
                          ELSE IF ToUpper(fnOut.r.type) = <<"D", "S", "2">> THEN 8
                          ELSE defaultAzureVolumeLimit)
                   /\ fnOut.r.type \in {<<>>, fnIn.env.labels1.type, fnIn.env.labels2.type,
                                         fnIn.env.instances.type, fnIn.env.metadata.vmSize}

\* no limit configured, two slots reserved, neither the cloud nor the labels
\* give the instance type: 16 - 2
C13_Witness ==
    /\ Informed /\ fnIn.cfg.VolumeAttachLimit < 0 /\ fnIn.cfg.ReservedDataDiskSlotNum = 2
    /\ ~fnIn.cfg.getNodeInfoFromLabels /\ fnIn.cfg.os = "linux"
    /\ fnIn.env.instances.err /\ fnIn.env.labels2.err
    /\ fnOut.r.status = OK /\ fnOut.r.maxVolumes = 14

LowerChar(c) ==
    CASE c = "D" -> "d"
      [] c = "S" -> "s"
      [] OTHER -> c

\* a and b differ in the case of their letters at most
CaseVariant(a, b) ==
    Len(a) = Len(b) /\ \A i \in 1..Len(a) : LowerChar(a[i]) = LowerChar(b[i])

\* C14: GetMaxDataDiskCount gives every instance type a result, the same for
\* all its upper/lower-case variants: the entry and found = true for a type
\* of the table, the default 16 and found = false for any other string, the
\* empty one included.
C14_CaseInsensitiveTotal ==
    fnOut.fn = "maxdisks" =>
        /\ \A u \in InstanceTypes :
              CaseVariant(u, fnIn.type) => GetMaxDataDiskCount(u) = fnOut.r
        /\ IF CaseVariant(fnIn.type, <<"d", "2", "s">>)
           THEN fnOut.r = [count |-> 4, exists |-> TRUE]
           ELSE IF CaseVariant(fnIn.type, <<"d", "s", "2">>)
           THEN fnOut.r = [count |-> 8, exists |-> TRUE]
           ELSE fnOut.r = [count |-> 16, exists |-> FALSE]

\* a lower-case spelling of a type of the table finds its entry
C14_Witness ==
    /\ fnOut.fn = "maxdisks" /\ fnIn.type = <<"d", "2", "s">>
    /\ fnOut.r = [count |-> 4, exists |-> TRUE]

\* the override of the node ID is on and the metadata name a scale-set
\* member / not one
Overridden ==
    /\ Informed /\ fnOut.r.status = OK
    /\ fnIn.cfg.getNodeIDFromIMDS /\ fnIn.cfg.useInstanceMetadata
    /\ ~fnIn.env.metadata.err /\ fnIn.env.metadata.compute

IDWhenDecoded ==
    LET md == fnIn.env.metadata
    IN  /\ (md.name # "" /\ md.vmScaleSetName = "") => fnOut.r.nodeID = md.name
        /\ (md.vmScaleSetName # "" /\ md.name = "vmss_1") => fnOut.r.nodeID = "vmss000001"
        /\ md.name = "" => fnOut.r.nodeID = fnIn.cfg.NodeID

DecodeFailed ==
    LET md == fnIn.env.metadata
    IN  md.vmScaleSetName # "" /\ md.name \in {"vm", "vmss_x"}

\* C15 as stated: with the override on and a scale-set instance, a failed
\* decoding of the member name gives the metadata name as node ID, and the
\* configured ID is kept only when the metadata name is unusable; a decoded
\* name is returned as it is, and so is the metadata name of an instance
\* outside a scale set.
C15_FallsBackToMetadataName ==
    Overridden =>
        /\ IDWhenDecoded
        /\ DecodeFailed => fnOut.r.nodeID = fnIn.env.metadata.name

\* C15 (amended): with the override on and a scale-set instance, a failed
\* decoding of the member name keeps the configured node ID when that is not
\* empty and gives the metadata name only when it is empty; a decoded name
\* is returned as it is, and so is the metadata name of an instance outside a
\* scale set.
C15_KeepsConfiguredID ==
    Overridden =>
        /\ IDWhenDecoded
        /\ DecodeFailed =>
              fnOut.r.nodeID = (IF fnIn.cfg.NodeID # "" THEN fnIn.cfg.NodeID
                                ELSE fnIn.env.metadata.name)

\* the decoding failed and the configured ID is returned
C15_Witness ==
    /\ Overridden /\ DecodeFailed
    /\ fnIn.cfg.NodeID = "node" /\ fnIn.env.metadata.name = "vmss_x"
    /\ fnOut.r.nodeID = "node"

\* call p has returned from the device locator with a slot that is no number
BadSlot(p) ==
    /\ Returned(p) /\ req[p].lun = "x"
    /\ \/ /\ req[p].op = "Stage" /\ ValidateStage(req[p]) = "ok"
          /\ result[p].code # "Aborted"
       \/ /\ req[p].op = "Publish" /\ req[p].access = "block"
          /\ ValidatePublish(req[p]) = "ok"
          /\ result[p].msg # "Target path could not be prepared"

\* C16: a Stage or raw-block Publish call whose slot string is not a
\* non-negative integer returns InvalidArgument, and has neither rescanned the
\* bus nor polled for the device.
C16_BadSlotIsInvalidArgument ==
    \A p \in Calls :
        BadSlot(p) =>
            /\ result[p].code = "InvalidArgument"
            /\ did[p] \cap {"rescan", "poll"} = {}

\* C17: a valid Stage call of a raw-block volume that got the volume lock
\* returns success, whatever the slot, the device discovery and the
\* performance tuning, and formats, mounts and resizes nothing.
C17_BlockStageSucceeds ==
    \A p \in Calls :
        (req[p].op = "Stage" /\ req[p].access = "block"
         /\ ValidateStage(req[p]) = "ok") =>
            /\ did[p] \cap {"format", "mount", "resize"} = {}
            /\ (Returned(p) /\ result[p].code # "Aborted") => result[p] = OK

\* the path of an Expand request is a block device: a device is bound onto
\* the file of a block publish target
IsDevice(path) == kind[path] = "file" /\ mounts[path] > 0

\* C18: a Stage call of a raw-block volume never formats, mounts or
\* resizes; an Expand call that begins on a target that is a block device,
\* or exists and comes with a block capability, returns in that step (with
\* success when the inspection of the path does not fail) and has made no
\* resize, no size measurement and no change to the lock table.
C18_NoResizeOfBlock ==
    /\ [](\A p \in Calls :
            (req[p].op = "Stage" /\ req[p].access = "block") =>
                did[p] \cap {"format", "mount", "resize"} = {})
    /\ [][\A p \in Calls :
            (/\ pc[p] = "idle" /\ pc'[p] # "idle" /\ req'[p].op = "Expand"
             /\ ValidateExpand(req'[p]) = "ok"
             /\ \/ IsDevice(req'[p].path)
                \/ req'[p].access = "block" /\ kind[req'[p].path] # "absent")
            => /\ pc'[p] = "done"
               /\ result'[p].code \in {"OK", "NotFound"}
               /\ healthy => result'[p] = OK
               /\ did'[p] \cap {"findmnt", "resize", "measure"} = {}
               /\ ~held'[p]
               /\ volumeLocks' = volumeLocks]_vars

\* an Expand with a block capability on a path that is a directory, not a
\* device, has returned success after the inspection only
C18_Witness ==
    \E p \in Calls :
        /\ Returned(p) /\ req[p].op = "Expand" /\ req[p].access = "block"
        /\ kind[req[p].path] = "dir" /\ ~IsDevice(req[p].path)
        /\ result[p] = OK /\ did[p] = {"inspect"}

\* C19: when ensureMountPoint has found the target mounted, could not list
\* it and has unmounted it, the Stage or Publish call that invoked it goes on
\* to mount afresh in the same call.
C19_BrokenMountIsRemounted ==
    [][\A p \in Calls :
        /\ (/\ pc[p] = "ensure" /\ req[p].op = "Stage" /\ pc'[p] # "ensure"
            /\ mounts'[req[p].path] < mounts[req[p].path])
           => pc'[p] = "format"
        /\ (/\ pc[p] = "idle" /\ pc'[p] # "idle"
            /\ req'[p].op = "Publish" /\ req'[p].access = "mount"
            /\ ValidatePublish(req'[p]) = "ok"
            /\ mounts'[req'[p].path] < mounts[req'[p].path])
           => pc'[p] = "mount"]_vars

Ensured == fnOut.fn = "ensure"
QueryNotExist == fnIn.k[fnIn.target] = "absent"
QueryFailed == "query" \in fnIn.f /\ ~QueryNotExist
Unchanged == fnOut.r.mounts = fnIn.m /\ fnOut.r.kind = fnIn.k

\* a missing path: not mounted; the directory is made outside Windows
MissingPathIsMade ==
    (QueryNotExist /\ fnIn.f \cap {"list", "mkdir"} = {}) =>
        /\ fnOut.r.mnt = FALSE /\ fnOut.r.err = "nil"
        /\ fnOut.r.mounts = fnIn.m
        /\ fnOut.r.kind[fnIn.target] = (IF fnIn.os = "windows" THEN "absent" ELSE "dir")

\* C20 as stated: a query error for a missing path means "not mounted" and
\* the directory is made; a query error for another reason means "already
\* mounted" and leads to the health check, never to an error for the caller
\* and never to a format.
C20_QueryErrorIsMounted ==
    Ensured =>
        /\ MissingPathIsMade
        /\ QueryFailed => (fnOut.r.err = "nil" /\ fnOut.r.mnt)

\* C20 (amended): a query error for a missing path means "not mounted" and
\* the directory is made; a query error for another reason means "already
\* mounted" and leads to the health check only when the target is a
\* corrupted directory, and is else returned to the caller as it is, with
\* nothing changed. In the health check a directory that lists is reported
\* mounted with no error; one that does not list is unmounted, and if the
\* unmount fails that error is returned with nothing changed. While the
\* directory lists or the unmount fails, "not mounted, no error" is never
\* reported, so the caller does not format.
C20_QueryErrorIsMountedIfCorrupted ==
    Ensured =>
        /\ MissingPathIsMade
        /\ QueryFailed =>
              /\ "corrupt" \notin fnIn.f => (fnOut.r.err = "QueryErr" /\ Unchanged)
              /\ ("corrupt" \in fnIn.f /\ "readdir" \notin fnIn.f) =>
                    (fnOut.r.err = "nil" /\ fnOut.r.mnt /\ Unchanged)
              /\ ("corrupt" \in fnIn.f /\ "readdir" \in fnIn.f) =>
                    IF CanUnmount(fnIn.target, fnIn.m, fnIn.f)
                    THEN /\ ~fnOut.r.mnt
                         /\ fnOut.r.mounts[fnIn.target] = fnIn.m[fnIn.target] - 1
                    ELSE fnOut.r.err = "UnmountErr" /\ Unchanged

\* the query failed on a directory that is not corrupted: the error is
\* returned
C20_Witness ==
    /\ Ensured /\ fnIn.f = {"query"} /\ fnIn.k[fnIn.target] = "dir"
    /\ fnOut.r.err = "QueryErr" /\ ~fnOut.r.mnt

\* the steps call p makes in this transition
StepsNow(p) == did'[p] \ did[p]

\* C21 as stated: a Stage, Unstage or Expand call makes no step on the OS
\* (path inspection, rescan, poll, format, mount, unmount, resize) unless it
\* holds the lock of its volume, taken in an earlier step of the call.
C21_LockBeforeEveryStep ==
    [][\A p \in Calls :
        (req'[p].op \in LockOps /\ StepsNow(p) # {}) => held[p]]_vars

\* C21 (amended): a Stage or Unstage call makes no step on the OS unless it
\* holds the lock of its volume; an Expand call inspects the path, and for a
\* raw-block target rescans the devices, before it takes the lock, and makes
\* every other step (the lookup of the device, the device rescan, the resize
\* and the measurement) holding the lock.
C21_LockBeforeEveryStepButInspection ==
    [][\A p \in Calls :
        (req'[p].op \in LockOps /\ StepsNow(p) # {}) =>
            \/ held[p]
            \/ /\ req'[p].op = "Expand"
               /\ "inspect" \in StepsNow(p)
               /\ StepsNow(p) \subseteq {"inspect", "rescanAll"}]_vars

\* an Expand call was refused the lock after it had inspected the path
C21_Witness ==
    \E p \in Calls :
        /\ Refused(p) /\ req[p].op = "Expand"
        /\ did[p] = {"inspect"} /\ ~held[p]

\* a raw-block Publish came as far as making the target file, and that
\* failed: the path is a directory, or MakeFile reports an error
CreationFailed ==
    /\ fnOut.fn = "publish" /\ fnIn.r.lun = "3" /\ fnIn.dev = Device(0, Never)
    /\ fnIn.f \cap {"prepare", "mkdir"} = {}
    /\ ~CanMakeFile(fnIn.r.path, fnIn.k, fnIn.f)

\* C22: when making the target file of a raw-block Publish fails, the call
\* returns the creation error whether or not the removal of the target
\* works, and goes on to no bind mount.
C22_CreationErrorSurfaces ==
    CreationFailed =>
        /\ fnOut.r.status = Internal("could not create file")
        /\ fnOut.r.next = "return"
        /\ fnOut.r.mounts = fnIn.m

\* Stage has mounted the staging path
MountedInStage == fnOut.fn = "resize" /\ fnIn.f = {}
Forced == fnIn.marker \in {"true", "TRUE", "True"}
ResizeAttempted == "resize" \in fnOut.r.steps
MountInPlace == fnOut.r.mounts[fnIn.path] = fnIn.m[fnIn.path] + 1

\* C23: after the mount in Stage a marker "true" in any case forces the
\* resize and the heuristic is not asked; else the heuristic decides, and an
\* error of the heuristic means no resize and no failure; a resize that is
\* attempted and fails makes Stage return Internal, the mount staying in
\* place; in every other case Stage returns success.
C23_ResizeDecision ==
    MountedInStage =>
        /\ MountInPlace
        /\ Forced => (ResizeAttempted /\ ~fnOut.r.consulted)
        /\ ~Forced => (fnOut.r.consulted /\ (ResizeAttempted <=> fnIn.heuristic = "need"))
        /\ (~Forced /\ fnIn.heuristic = "err") => (~ResizeAttempted /\ fnOut.r.status = OK)
        /\ IF ResizeAttempted /\ ~fnIn.resizeOK
           THEN fnOut.r.status.code = "Internal"
           ELSE fnOut.r.status = OK

\* the heuristic failed, no marker: Stage succeeded without a resize
C23_Witness ==
    /\ MountedInStage /\ fnIn.marker = "" /\ fnIn.heuristic = "err"
    /\ fnOut.r.status = OK /\ fnOut.r.steps = {"format", "mount"}

\* the zone query NodeGetInfo makes on this platform
ZoneQuery ==
    IF fnIn.cfg.os = "windows" /\ ~fnIn.cfg.useInstanceMetadata
    THEN fnIn.env.zoneByNodeName ELSE fnIn.env.zone

\* the call failed with Internal exactly when the node labels could not be
\* read, and else the zone found is the one of the labels
ZoneFromLabels ==
    /\ fnOut.r.status # OK <=> fnIn.env.labels1.err
    /\ fnOut.r.status # OK => fnOut.r.status.code = "Internal"
    /\ fnOut.r.status = OK => fnOut.r.found = fnIn.env.labels1.zone

\* C24: with zone support, GetNodeInfo takes the zone from the node labels
\* alone when labels are preferred; else from the zone query, and from the
\* node labels only when the query fails; it fails with Internal exactly
\* when the last source asked fails; a zone of the labels is used only when
\* the query gave no failure domain.
C24_ZoneSources ==
    (Informed /\ fnIn.cfg.supportZone) =>
        IF fnIn.cfg.getNodeInfoFromLabels THEN ZoneFromLabels
        ELSE IF ZoneQuery.err THEN ZoneFromLabels
        ELSE fnOut.r.status = OK /\ fnOut.r.found = ZoneQuery.failureDomain

\* the zone query failed and the zone of the node labels went into the
\* topology
C24_Witness ==
    /\ Informed /\ fnIn.cfg.supportZone /\ ~fnIn.cfg.getNodeInfoFromLabels
    /\ ZoneQuery.err /\ ~fnIn.env.labels1.err /\ fnIn.env.labels1.zone = "eastus-1"
    /\ fnOut.r.status = OK /\ fnOut.r.segment = "eastus-1"

\* call p begins in this transition
Begins(p) == pc[p] = "idle" /\ pc'[p] # "idle"

\* C25: a Stage, Unstage or Expand call that is refused for contention
\* changes neither the lock table nor who holds a lock, when it is refused
\* and when its goroutine is freed; and every call that begins for a volume
\* whose lock is taken gets no lock and returns in its first step, a valid
\* Stage or Unstage call with the contention error: so the next call for the
\* volume is refused as well while the holder runs.
C25_RefusalKeepsLocks ==
    [][\A p \in Calls :
        /\ (Begins(p) /\ result'[p].code = "Aborted") =>
              /\ volumeLocks' = volumeLocks /\ held' = held
              /\ req'[p].vol \in volumeLocks'
        /\ (Refused(p) /\ pc'[p] = "idle") =>
              (volumeLocks' = volumeLocks /\ held' = held)
        /\ (Begins(p) /\ req'[p].op \in LockOps /\ req'[p].vol \in volumeLocks) =>
              /\ pc'[p] = "done" /\ ~held'[p]
              /\ volumeLocks' = volumeLocks
              /\ (req'[p].op = "Stage" /\ ValidateStage(req'[p]) = "ok")
                    => result'[p] = AlreadyExists
              /\ (req'[p].op = "Unstage" /\ ValidateUnstage(req'[p]) = "ok")
                    => result'[p] = AlreadyExists]_vars

\* an Unstage call has been refused while the Stage call that holds the lock
\* of the volume is about to format: the lock is still in the table
C25_Witness ==
    \E p, q \in Calls :
        /\ Refused(p) /\ req[p].op = "Unstage"
        /\ pc[q] = "format" /\ held[q] /\ req[q].op = "Stage"
        /\ req[q].vol = req[p].vol /\ req[q].vol \in volumeLocks

\* C26: when only filesystem-mount Publish calls act on a target path, the
\* path never carries more than one bind mount, however the calls interleave.
C26_OneBindMount ==
    suite = "lifecycle" => \A t \in TargetPaths : mounts[t] <= 1

\* C27: when the filesystem Expand returns success, the capacity it returns
\* is at least the required bytes of the request.
C27_CapacityCoversRequest ==
    (fnOut.fn = "expand" /\ fnOut.r.status = OK) =>
        fnOut.r.capacityBytes >= fnIn.required

\* call p returns InvalidArgument in this transition
ReturnsInvalid(p) ==
    pc[p] # "done" /\ pc'[p] = "done" /\ result'[p].code = "InvalidArgument"

\* what the lock table was when call p began, seen from its return: the
\* call gives back the lock it took
LocksAsBefore(p) ==
    /\ ~held'[p]
    /\ volumeLocks' = (IF held[p] THEN volumeLocks \ {req[p].vol} ELSE volumeLocks)

\* taking the lock is all a Stage call does on the way to its slot check
StageBeginsBare(p) ==
    (Begins(p) /\ req'[p].op = "Stage") =>
        (mounts' = mounts /\ kind' = kind /\ did'[p] = {})

\* C28 as stated: a call that returns InvalidArgument has made no step on
\* the OS, no path preparation either, and has changed neither the
\* directories, files and mount entries nor, on return, the lock table.
C28_InvalidChangesNothing ==
    [][\A p \in Calls :
        /\ StageBeginsBare(p)
        /\ ReturnsInvalid(p) =>
              /\ LocksAsBefore(p)
              /\ mounts' = mounts /\ kind' = kind
              /\ did'[p] = {}]_vars

\* a raw-block Publish has no slot in its publish context
NoSlotPublish(p) ==
    /\ req'[p].op = "Publish" /\ req'[p].access = "block" /\ req'[p].lun = "absent"
    /\ result'[p] = InvalidArgument("lun not provided")

\* C28 (amended): a call that returns InvalidArgument has changed no mount
\* entry and, on return, not the lock table, and has made no rescan, poll,
\* mount, format or unmount step; it has made no step on the OS at all and
\* changed no directory or file, except a raw-block Publish without
\* attachment slot, which has run the path preparation before the slot is
\* asked for.
C28_InvalidChangesNothingButPreparedPath ==
    [][\A p \in Calls :
        /\ StageBeginsBare(p)
        /\ ReturnsInvalid(p) =>
              /\ LocksAsBefore(p)
              /\ mounts' = mounts
              /\ IF NoSlotPublish(p)
                 THEN did'[p] = {"prepare"}
                 ELSE did'[p] = {} /\ kind' = kind]_vars

\* a raw-block Publish without slot has returned after the path preparation
C28_Witness ==
    \E p \in Calls :
        /\ Returned(p) /\ req[p].op = "Publish" /\ req[p].access = "block"
        /\ result[p] = InvalidArgument("lun not provided")
        /\ did[p] = {"prepare"}

====
